---- MODULE Spec2Model ----
(***************************************************************************)
(* Model of the evaluation harness adapters of multi_swe_bench             *)
(* (harness/repos/golang/gin_gonic/gin.py, harness/repos/java/apache/      *)
(* dubbo.py): the log-to-verdict reduction parse_log of both adapters, the *)
(* staged phase scripts, the Image dependency chain, the three-phase       *)
(* certification, the rendering and build of the two Dockerfiles,          *)
(* prepare.sh with the scripts it calls, the Instance registry and the     *)
(* build resources of evaluations that run side by side; and of the        *)
(* collection side (collect/util.py, collect/fetch_github_repo_gql.py,     *)
(* collect/new_fetch_prs.py, collect/new_fetch_prs_graphql.py,             *)
(* fetch_github.py): the retry wrappers, the token rotation, the           *)
(* extraction of resolved issues, the paginated fetchers and the           *)
(* repository filter.                                                      *)
(*                                                                         *)
(* Text is a sequence of symbols.  A symbol is a maximal run of letters, a *)
(* maximal run of digits, or one single other character (punctuation,      *)
(* blank, tab, line feed); every symbol is written as the TLA+ string of   *)
(* its characters, so Len(symbol) is its length in characters.  The        *)
(* regular expressions of the source are kept as data (sequences of nodes) *)
(* and run by a backtracking matcher that follows Python's re priorities.  *)
(***************************************************************************)
EXTENDS Integers, Sequences, FiniteSets, TLC

\* ------------------------------------------------------------------ text

LF == "\n"
TAB == "\t"
SP == " "

\* str.isspace / \s on the symbols of the alphabet
IsSpace(c) == c \in {SP, TAB, LF}

\* the punctuation characters of the alphabet (each one symbol)
Punct == {"-", ":", ".", ",", "/", "<", "!", "(", ")", "=", "[", "]", "#", ">"}

\* the digit runs of the alphabet, with the value int() gives them
DigitVal == [d \in {"0", "1", "2", "00", "01"} |->
               CASE d = "0" -> 0 [] d = "1" -> 1 [] d = "2" -> 2
                 [] d = "00" -> 0 [] d = "01" -> 1]

\* \d on a symbol
IsDigit(c) == c \in DOMAIN DigitVal

\* \w on a symbol: letters, digits, underscore
IsWord(c) == ~IsSpace(c) /\ c \notin Punct

\* int(text): defined on digit runs only; anything else raises ValueError
IntDefined(w) == Len(w) > 0 /\ \A k \in 1..Len(w) : IsDigit(w[k])

RECURSIVE Pow10(_)
Pow10(n) == IF n = 0 THEN 1 ELSE 10 * Pow10(n - 1)

RECURSIVE IntOf(_)
IntOf(w) ==
    IF Len(w) = 0 THEN 0
    ELSE LET last == w[Len(w)]
         IN IntOf(SubSeq(w, 1, Len(w) - 1)) * Pow10(Len(last)) + DigitVal[last]

\* number of characters of a text
RECURSIVE CharLen(_)
CharLen(s) == IF Len(s) = 0 THEN 0 ELSE Len(Head(s)) + CharLen(Tail(s))

\* ---------------------------------------------------------------- regex

Node(t, v, body, g) == [t |-> t, v |-> v, w |-> <<>>, body |-> body, g |-> g]
\* a literal: the symbols of w, in a row
Lits(w) == [Node("lits", "", <<>>, 0) EXCEPT !.w = w]
Lit(v) == Lits(<<v>>)
\* one symbol of class k, and its repetitions k*, k+, k+?
Cls(k) == Node("cls", k, <<>>, 0)
ClsStar(k) == Node("clsstar", k, <<>>, 0)
ClsPlus(k) == Node("clsplus", k, <<>>, 0)
ClsLazyPlus(k) == Node("clslazyplus", k, <<>>, 0)
\* (?:body)*
Star(body) == Node("star", "", body, 0)
Open(g) == Node("open", "", <<>>, g)
Close(g) == Node("close", "", <<>>, g)
\* (?!body)
NotAhead(body) == Node("nla", "", body, 0)
\* ^ (without re.MULTILINE) and \b
Bos == Node("bos", "", <<>>, 0)
WordB == Node("wordb", "", <<>>, 0)

\* the character classes used by the patterns
ClassHas(k, c) ==
    CASE k = "s" -> IsSpace(c)
      [] k = "S" -> ~IsSpace(c)
      [] k = "d" -> IsDigit(c)
      [] k = "d." -> IsDigit(c) \/ c = "."
      [] k = "dot" -> c # LF
      [] k = "blank" -> c = SP
      [] k = "w" -> IsWord(c)

MaxGroup == 5
NoGroups == [g \in 1..MaxGroup |-> <<0, 0>>]
NoMatch == [ok |-> FALSE, end |-> 0, grp |-> NoGroups]

\* \b at position i of s
AtWordBoundary(s, i) ==
    LET before == i > 1 /\ IsWord(s[i - 1])
        after == i <= Len(s) /\ IsWord(s[i])
    IN before # after

\* the end of the longest run of class k symbols that starts at i
RECURSIVE RunEnd(_, _, _)
RunEnd(s, k, i) ==
    IF i > Len(s) \/ ~ClassHas(k, s[i]) THEN i ELSE RunEnd(s, k, i + 1)

\* The backtracking matcher: nodes is the rest of the pattern, i the
\* position in s, grp the groups so far.  The first alternative that leads
\* to a complete match wins (greedy: the longest repetition first; lazy:
\* the shortest first).
RECURSIVE re_exec(_, _, _, _)
RECURSIVE re_try(_, _, _, _, _, _)
\* the rest of the pattern tried at from, from + step, ..., upto
re_try(s, rest, from, upto, step, grp) ==
    IF (step > 0 /\ from > upto) \/ (step < 0 /\ from < upto) THEN NoMatch
    ELSE LET m == re_exec(s, rest, from, grp)
         IN IF m.ok THEN m ELSE re_try(s, rest, from + step, upto, step, grp)

re_exec(s, nodes, i, grp) ==
    IF Len(nodes) = 0 THEN [ok |-> TRUE, end |-> i, grp |-> grp]
    ELSE
      LET n == Head(nodes)
          rest == Tail(nodes)
      IN CASE n.t = "lits" ->
                IF i + Len(n.w) - 1 <= Len(s) /\ SubSeq(s, i, i + Len(n.w) - 1) = n.w
                THEN re_exec(s, rest, i + Len(n.w), grp) ELSE NoMatch
           [] n.t = "cls" ->
                IF i <= Len(s) /\ ClassHas(n.v, s[i])
                THEN re_exec(s, rest, i + 1, grp) ELSE NoMatch
           [] n.t = "clsstar" ->
                re_try(s, rest, RunEnd(s, n.v, i), i, -1, grp)
           [] n.t = "clsplus" ->
                re_try(s, rest, RunEnd(s, n.v, i), i + 1, -1, grp)
           [] n.t = "clslazyplus" ->
                re_try(s, rest, i + 1, RunEnd(s, n.v, i), 1, grp)
           [] n.t = "star" ->
                LET more == re_exec(s, n.body \o <<n>> \o rest, i, grp)
                IN IF more.ok THEN more ELSE re_exec(s, rest, i, grp)
           [] n.t = "open" ->
                re_exec(s, rest, i, [grp EXCEPT ![n.g] = <<i, i>>])
           [] n.t = "close" ->
                re_exec(s, rest, i, [grp EXCEPT ![n.g] = <<grp[n.g][1], i>>])
           [] n.t = "nla" ->
                IF re_exec(s, n.body, i, grp).ok
                THEN NoMatch ELSE re_exec(s, rest, i, grp)
           [] n.t = "bos" ->
                IF i = 1 THEN re_exec(s, rest, i, grp) ELSE NoMatch
           [] n.t = "wordb" ->
                IF AtWordBoundary(s, i)
                THEN re_exec(s, rest, i, grp) ELSE NoMatch

\* m.group(g)
Group(s, m, g) == SubSeq(s, m.grp[g][1], m.grp[g][2] - 1)

\* Pattern.match(line): a match that starts at the start of the line
re_match(pattern, line) == re_exec(line, pattern, 1, NoGroups)

\* the index of the first symbol that starts at or after character offset
\* pos (Len(s) + 1 when there is none)
RECURSIVE SymbolAt(_, _, _)
SymbolAt(s, pos, j) ==
    IF j > Len(s) \/ CharLen(SubSeq(s, 1, j - 1)) >= pos THEN j
    ELSE SymbolAt(s, pos, j + 1)

\* the successive non-overlapping matches found scanning from index i
RECURSIVE re_scan(_, _, _)
re_scan(pattern, s, i) ==
    LET starts == {j \in i..(Len(s) + 1) : re_exec(s, pattern, j, NoGroups).ok}
    IN IF starts = {} THEN <<>>
       ELSE LET j == CHOOSE x \in starts : \A y \in starts : x <= y
                m == re_exec(s, pattern, j, NoGroups)
            IN <<m>> \o re_scan(pattern, s, IF m.end = j THEN j + 1 ELSE m.end)

\* Pattern.findall(string, pos): the second positional argument of a
\* compiled pattern's findall is the start offset pos, not a flag
re_findall(pattern, s, pos) == re_scan(pattern, s, SymbolAt(s, pos, 1))

\* str.splitlines()
RECURSIVE splitlines(_)
splitlines(s) ==
    IF Len(s) = 0 THEN <<>>
    ELSE LET brk == {k \in 1..Len(s) : s[k] = LF}
         IN IF brk = {} THEN <<s>>
            ELSE LET k == CHOOSE x \in brk : \A y \in brk : x <= y
                 IN <<SubSeq(s, 1, k - 1)>> \o splitlines(SubSeq(s, k + 1, Len(s)))

\* str.strip()
RECURSIVE strip(_)
strip(line) ==
    IF Len(line) = 0 THEN line
    ELSE IF IsSpace(Head(line)) THEN strip(Tail(line))
    ELSE IF IsSpace(line[Len(line)]) THEN strip(SubSeq(line, 1, Len(line) - 1))
    ELSE line

\* ------------------------------------------------------------ TestResult

\* what a call of parse_log does: it returns a TestResult or it raises
Returns(result) == [raised |-> FALSE, result |-> result]
Raises == [raised |-> TRUE,
           result |-> [passed_count |-> 0, failed_count |-> 0, skipped_count |-> 0,
                       passed_tests |-> {}, failed_tests |-> {}, skipped_tests |-> {}]]

TestResult(passed, failed, skipped) ==
    [passed_count |-> Cardinality(passed),
     failed_count |-> Cardinality(failed),
     skipped_count |-> Cardinality(skipped),
     passed_tests |-> passed,
     failed_tests |-> failed,
     skipped_tests |-> skipped]

\* ----------------------------------------------------- gin: parse_log

\* re.compile(r"--- PASS: (\S+)") and its two siblings
gin_marker(word) ==
    <<Lits(<<"-", "-", "-", SP, word, ":", SP>>), Open(1), ClsPlus("S"), Close(1)>>
re_pass == gin_marker("PASS")
re_fail == gin_marker("FAIL")
re_skip == gin_marker("SKIP")
\* re.compile(r"^FAIL\s+(\S+)\b")
re_pkg_fail ==
    <<Bos, Lit("FAIL"), ClsPlus("s"), Open(1), ClsPlus("S"), Close(1), WordB>>

\* mutant: the package failure goes in under the bare path
PkgId_bare(pkg) == pkg

\* f"pkg::{pkg}"
PkgId(pkg) == <<"pkg", ":", ":">> \o pkg

\* the names one pattern adds for one line
gin_names(pattern, line) ==
    LET m == re_match(pattern, line)
    IN IF m.ok THEN {Group(line, m, 1)} ELSE {}

\* the for loop over test_log.splitlines(): the three sets before the
\* subtraction
RECURSIVE gin_scan(_, _)
gin_scan(lines, acc) ==
    IF Len(lines) = 0 THEN acc
    ELSE LET line == strip(Head(lines))
             pkgs == {PkgId(p) : p \in gin_names(re_pkg_fail, line)}
         IN gin_scan(Tail(lines),
                     [passed |-> acc.passed \cup gin_names(re_pass, line),
                      failed |-> acc.failed \cup gin_names(re_fail, line) \cup pkgs,
                      skipped |-> acc.skipped \cup gin_names(re_skip, line)])

EmptySets == [passed |-> {}, failed |-> {}, skipped |-> {}]

\* mutant: no subtraction at all
gin_disjoint_keep(raw) == TestResult(raw.passed, raw.failed, raw.skipped)

\* mutant: the subtraction in the order Pass > Fail > Skip
gin_disjoint_pass_first(raw) ==
    LET failed == raw.failed \ raw.passed
        skipped == (raw.skipped \ raw.passed) \ failed
    IN TestResult(raw.passed, failed, skipped)

\* "Ensure disjoint sets: Fail > Pass > Skip"
gin_disjoint(raw) ==
    LET passed == raw.passed \ raw.failed
        skipped == (raw.skipped \ raw.failed) \ passed
    IN TestResult(passed, raw.failed, skipped)

gin_parse_log(test_log) ==
    Returns(gin_disjoint(gin_scan(splitlines(test_log), EmptySets)))

\* --------------------------------------------------- dubbo: parse_log

TestsRun == <<"Tests", SP, "run", ":">>
\* mutant: the group takes the comma in, as in (\d+,)
Count_comma(label, g) ==
    <<Lits(label), ClsStar("s"), Open(g), ClsPlus("d"), Lit(","), Close(g)>>

\* \s*(\d+), for group g, after the label
Count(label, g) ==
    <<Lits(label), ClsStar("s"), Open(g), ClsPlus("d"), Close(g), Lit(",")>>
\* (\d+), after the label and one blank
Count1(label, g) ==
    <<Lits(label \o <<SP>>), Open(g), ClsPlus("d"), Close(g), Lit(",")>>

\* re_pass_tests[0]:
\* Running\s+(.+?)\s*\n(?:(?!Tests run:).*\n)*Tests run:\s*(\d+),\s*Failures:\s*(\d+),
\* \s*Errors:\s*(\d+),\s*Skipped:\s*(\d+),\s*Time elapsed:\s*[\d.]+\s*sec
re_pass_tests ==
    <<Lit("Running"), ClsPlus("s"),
      Open(1), ClsLazyPlus("dot"), Close(1),
      ClsStar("s"), Lit(LF),
      Star(<<NotAhead(<<Lits(TestsRun)>>), ClsStar("dot"), Lit(LF)>>)>>
    \o Count(TestsRun, 2)
    \o <<ClsStar("s")>> \o Count(<<"Failures", ":">>, 3)
    \o <<ClsStar("s")>> \o Count(<<"Errors", ":">>, 4)
    \o <<ClsStar("s")>> \o Count(<<"Skipped", ":">>, 5)
    \o <<ClsStar("s"), Lits(<<"Time", SP, "elapsed", ":">>),
         ClsStar("s"), ClsPlus("d."), ClsStar("s"), Lit("sec")>>

\* re_fail_tests[0]:
\* Running (.+?)\nTests run: (\d+), Failures: (\d+), Errors: (\d+), Skipped: (\d+),
\*  Time elapsed: [\d\.]+ sec +<<< FAILURE!
re_fail_tests ==
    <<Lits(<<"Running", SP>>), Open(1), ClsLazyPlus("dot"), Close(1), Lit(LF)>>
    \o Count1(TestsRun, 2)
    \o <<Lit(SP)>> \o Count1(<<"Failures", ":">>, 3)
    \o <<Lit(SP)>> \o Count1(<<"Errors", ":">>, 4)
    \o <<Lit(SP)>> \o Count1(<<"Skipped", ":">>, 5)
    \o <<Lits(<<SP, "Time", SP, "elapsed", ":", SP>>),
         ClsPlus("d."), Lits(<<SP, "sec">>), ClsPlus("blank"),
         Lits(<<"<", "<", "<", SP, "FAILURE", "!">>)>>

\* re.MULTILINE, which the source hands to findall in the place of pos
MULTILINE == 8

\* the if / elif / elif of the first loop, for one match
dubbo_classify(s, m, acc) ==
    LET test_name == Group(s, m, 1)
        tests_run == IntOf(Group(s, m, 2))
        failures == IntOf(Group(s, m, 3))
        errors == IntOf(Group(s, m, 4))
        skipped == IntOf(Group(s, m, 5))
    IN IF tests_run > 0 /\ failures = 0 /\ errors = 0 /\ skipped # tests_run
       THEN [acc EXCEPT !.passed = @ \cup {test_name}]
       ELSE IF failures > 0 \/ errors > 0
       THEN [acc EXCEPT !.failed = @ \cup {test_name}]
       ELSE IF skipped = tests_run
       THEN [acc EXCEPT !.skipped = @ \cup {test_name}]
       ELSE acc

\* int() is applied to groups 2..5 of every match of the first loop
dubbo_int_raises(s, ms) ==
    \E k \in 1..Len(ms) : \E g \in 2..5 : ~IntDefined(Group(s, ms[k], g))

RECURSIVE dubbo_pass_loop(_, _, _)
dubbo_pass_loop(s, ms, acc) ==
    IF Len(ms) = 0 THEN acc
    ELSE dubbo_pass_loop(s, Tail(ms), dubbo_classify(s, Head(ms), acc))

\* the second loop: every match of re_fail_tests is failed
dubbo_fail_loop(s, ms, acc) ==
    [acc EXCEPT !.failed = @ \cup {Group(s, ms[k], 1) : k \in 1..Len(ms)}]

dubbo_parse_log(test_log) ==
    LET tests == re_findall(re_pass_tests, test_log, MULTILINE)
        first == dubbo_pass_loop(test_log, tests, EmptySets)
        second == dubbo_fail_loop(test_log,
                                  re_findall(re_fail_tests, test_log, MULTILINE),
                                  first)
    IN IF dubbo_int_raises(test_log, tests) THEN Raises
       ELSE Returns(TestResult(second.passed, second.failed, second.skipped))

\* ------------------------------------------------------------- inputs

\* the longest log, in lines (gin) or chunks (dubbo)
MaxLines == 3
\* the calls of parse_log in one behaviour of SpecPure
MaxCalls == 3

Adapters == {"gin", "dubbo"}

\* "--- <word>: <name> (0.00s)"
GoTestLine(word, name) ==
    <<"-", "-", "-", SP, word, ":", SP>> \o name \o <<SP, "(", "0", ".", "00", "s", ")">>
PkgFoo == <<"pkg", "/", "foo">>

\* lines of go test -v output
GinLines ==
    {<<"-", "-", "-", SP, "PASS", ":", SP, "TestA">>,
     GoTestLine("FAIL", <<"TestA">>),
     GoTestLine("SKIP", <<"TestA">>),
     <<"-", "-", "-", SP, "FAIL", ":", SP, "TestB">>,
     <<SP, SP, SP, SP>> \o GoTestLine("SKIP", <<"TestB">>),
     GoTestLine("PASS", PkgFoo),
     <<"FAIL", TAB>> \o PkgFoo \o <<SP, "0", ".", "01", "s">>,
     <<"ok", SP, SP, TAB>> \o PkgFoo \o <<TAB, "0", ".", "01", "s">>,
     <<"FAIL">>,
     <<"=", "=", "=", SP, "RUN", SP, SP, SP, "TestA">>}

\* "Running <name>" and the surefire summary line "Tests run: ..."
RunningLine(name) == <<"Running", SP>> \o name \o <<LF>>
Summary(run, failures, errors, skipped, tail) ==
    <<"Tests", SP, "run", ":", SP, run, ",", SP, "Failures", ":", SP, failures, ",", SP,
      "Errors", ":", SP, errors, ",", SP, "Skipped", ":", SP, skipped, ",", SP,
      "Time", SP, "elapsed", ":", SP, "0", ".", "01", SP, "sec">> \o tail \o <<LF>>
FailureTail == <<SP, "<", "<", "<", SP, "FAILURE", "!">>
ClassA == <<"org", ".", "ATest">>
ClassB == <<"BTest">>

\* chunks of mvn test output: whole blocks, and single lines
DubboChunks ==
    {RunningLine(ClassA) \o Summary("2", "0", "0", "0", <<>>),
     RunningLine(ClassA) \o Summary("2", "1", "0", "0", FailureTail),
     RunningLine(ClassA) \o Summary("1", "0", "0", "1", <<>>),
     RunningLine(ClassB) \o Summary("1", "0", "1", "0", <<>>),
     RunningLine(ClassB),
     Summary("1", "0", "0", "0", <<>>),
     <<"[", "INFO", "]", SP, "BUILD", LF>>}

\* the texts of at most n of the given lines, each line ended by a line feed
RECURSIVE Texts(_, _)
Texts(lines, n) ==
    IF n = 0 THEN {<<>>}
    ELSE LET shorter == Texts(lines, n - 1)
         IN shorter \cup {l \o t : l \in lines, t \in shorter}

GinLogs == Texts({l \o <<LF>> : l \in GinLines}, MaxLines)
DubboLogs == Texts(DubboChunks, MaxLines)
Logs(a) == IF a = "gin" THEN GinLogs ELSE DubboLogs
\* the texts of SpecPure, where every call has a text of its own
PureLogs(a) == IF a = "gin" THEN Texts({l \o <<LF>> : l \in GinLines}, 1)
               ELSE Texts(DubboChunks, 1)

\* the pull request numbers
MaxPR == 2

\* mutant: both adapters are registered under the same org
Org_same(a) == "apache"
\* the (org, repo) each adapter is registered for
Org(a) == IF a = "gin" THEN "gin-gonic" ELSE "apache"
Repo(a) == IF a = "gin" THEN "gin" ELSE "dubbo"

\* the PullRequest records: a patch may be empty or hold braces
PRs(a) ==
    {[org |-> Org(a), repo |-> Repo(a), number |-> n, base |-> [sha |-> "0a1b2c"],
      fix_patch |-> f, test_patch |-> t] :
        n \in 1..MaxPR, f \in {"", "fix {}"}, t \in {"", "test {}"}}
Configs == {[need_clone |-> b] : b \in BOOLEAN}

\* -------------------------------------------------------------- state

VARIABLES
    adapter,    \* the registered Instance class under evaluation
    inst,       \* the Instance objects: their fields _pr and _config
    test_log,   \* the raw text handed to the last call of parse_log
    calls,      \* the calls of parse_log so far, with what they returned
    pr,         \* the PullRequest of the evaluation
    config,     \* the Config of the evaluation
    node,       \* the object the walk along dependency() stands on
    visited,    \* the Images and references the walk has reached, in order
    phase,      \* the phase script the container runs ("" before the first)
    ip,         \* the index of its next command
    status,     \* "idle", "running", "ok" (exit 0) or "failed" (exit non-zero)
    errexit,    \* whether set -e is in force in the running script
    tree,       \* the patch files applied to the working tree of the container
    trace,      \* what the running script has done so far, in order
    results,    \* the TestResults of the phases that have been parsed, in order
    verdict,    \* the certification: "none" (not yet), "valid" or "invalid"
    env,        \* the caller's global_env and clear_env blocks
    layer,      \* the Image the build backend is building ("" before the first)
    dockerfile, \* the instructions of its rendered Dockerfile
    bi,         \* the index of the next instruction of the build
    home,       \* the files of /home/ in the image under construction
    built,      \* the instructions the build has executed, in order
    wt,         \* the working tree prepare.sh runs in
    stack,      \* the scripts bash is running, innermost last
    ptrace,     \* the commands run under prepare.sh, with their exit status
    pstatus,    \* the exit of prepare.sh: "idle", "running", "ok" or "failed"
    registry,   \* the registry of Instance classes, by (org, repo)
    lookups,    \* the lookups so far, with what they gave
    evals,      \* the evaluations that run side by side, with what they use
    request,    \* the call of a retry wrapper: the function and its arguments
    attempt,    \* the iterations of its loop that have finished
    last_error, \* its local last_error ("" for None)
    clock,      \* time.time(), in seconds
    answers,    \* what request_func gave, call by call
    sleeps,     \* the waits of the wrapper, in order
    done,       \* how the call ended: "running", "returned" or "raised", and what
    token_status, \* RateLimitedClient.token_status: remaining and reset_time by token
    best_token, \* what the last call of _get_best_token returned ("": not called
                \* since the statuses or the time changed)
    pull,       \* the pull request record handed to extract_resolved_issues
    resolved,   \* what its calls returned, as sets
    fetcher,    \* the call of a paginated fetcher: the function and its maximum
    cursor,     \* its local after / cursor ("" for None)
    all_results, \* its local all_repos / all_results / prs
    queries,    \* the page requests it has sent, in order
    pages,      \* what the client gave for them, in order
    fetched,    \* "idle", "running" or "returned", and the list returned
    job,        \* the call of filter_repos_by_conditions: its arguments
    filtered,   \* its local list filtered
    fpos,       \* the index of the fallback loop in filtered
    final_filtered    \* "idle", "fallback" or "returned", and the list returned

parseVars == <<inst, test_log, calls>>
evalVars == <<pr, config>>
chainVars == <<node, visited>>
shVars == <<phase, ip, status, errexit, tree, trace>>
certVars == <<results, verdict>>
buildVars == <<env, layer, dockerfile, bi, home, built>>
prepVars == <<wt, stack, ptrace, pstatus>>
regVars == <<registry, lookups>>
conVars == <<evals>>
retryVars == <<request, attempt, last_error, clock, answers, sleeps, done>>
tokenVars == <<token_status, best_token>>
issueVars == <<pull, resolved>>
pageVars == <<fetcher, cursor, all_results, queries, pages, fetched>>
filterVars == <<job, filtered, fpos, final_filtered>>
collectVars == <<retryVars, tokenVars, issueVars, pageVars, filterVars>>
harnessVars == <<parseVars, evalVars, chainVars, shVars, certVars, buildVars,
                 prepVars, regVars, conVars>>
\* what the actions of one collect module leave alone
exceptRetry == <<adapter, harnessVars, tokenVars, issueVars, pageVars, filterVars>>
exceptToken == <<adapter, harnessVars, retryVars, issueVars, pageVars, filterVars>>
exceptIssue == <<adapter, harnessVars, retryVars, tokenVars, pageVars, filterVars>>
exceptPage == <<adapter, harnessVars, retryVars, tokenVars, issueVars, filterVars>>
exceptFilter == <<adapter, harnessVars, retryVars, tokenVars, issueVars, pageVars>>
vars == <<adapter, parseVars, evalVars, chainVars, shVars, certVars,
          buildVars, prepVars, regVars, conVars, collectVars>>

InstIds == {1, 2}
\* InstanceTemplate.__init__: self._pr = pr, self._config = config
NewInstance(p, c) == [_pr |-> p, _config |-> c]
NewInstances == [i \in InstIds |-> NewInstance(i, [need_clone |-> TRUE])]

\* the state of the parts of the harness that take no part in a behaviour
NoEval == pr = (CHOOSE x \in PRs("gin") : TRUE) /\ config = [need_clone |-> TRUE]
NoParse == inst = NewInstances /\ test_log = <<>> /\ calls = <<>>
NoWalk == node = [kind |-> "None", adapter |-> "", number |-> 0, ref |-> ""] /\ visited = <<>>
NoShell == phase = "" /\ ip = 0 /\ status = "idle" /\ errexit = FALSE
           /\ tree = <<>> /\ trace = <<>>
NoCert == results = <<>> /\ verdict = "none"
NoBuild == /\ env = [global_env |-> <<>>, clear_env |-> <<>>]
           /\ layer = "" /\ dockerfile = <<>> /\ bi = 0 /\ home = <<>> /\ built = <<>>
NoPrep == /\ wt = [repo |-> TRUE, changes |-> {}, head |-> "HEAD"]
          /\ stack = <<>> /\ ptrace = <<>> /\ pstatus = "idle"
NoReg == registry = <<>> /\ lookups = <<>>
NoCon == evals = <<>>
NoRetry == /\ request = [fn |-> "", max_retries |-> 0, initial_backoff |-> 0,
                         backoff_multiplier |-> 0, max_backoff |-> 0]
           /\ attempt = 0 /\ last_error = [type |-> "", msg |-> ""] /\ clock = 0
           /\ answers = <<>> /\ sleeps = <<>>
           /\ done = [kind |-> "idle"]
NoToken == token_status = <<>> /\ best_token = ""
NoIssue == pull = <<>> /\ resolved = <<>>
NoPage == /\ fetcher = [fn |-> "", max |-> 0] /\ cursor = ""
          /\ all_results = <<>> /\ queries = <<>> /\ pages = <<>>
          /\ fetched = [kind |-> "idle", list |-> <<>>]
NoFilter == /\ job = <<>> /\ filtered = <<>> /\ fpos = 0
            /\ final_filtered = [kind |-> "idle", list |-> <<>>]
NoCollect == NoRetry /\ NoToken /\ NoIssue /\ NoPage /\ NoFilter

\* the record of one call: Instance, argument, outcome
Call(i, log, outcome) ==
    [inst |-> i, log |-> log, raised |-> outcome.raised, result |-> outcome.result]

\* mutant: the three sets live on across calls instead of starting empty
GinParseLog_keeps(i, log) ==
    /\ adapter = "gin"
    /\ test_log' = log
    /\ LET kept == IF calls = <<>> THEN EmptySets
                   ELSE [passed |-> calls[Len(calls)].result.passed_tests,
                         failed |-> calls[Len(calls)].result.failed_tests,
                         skipped |-> calls[Len(calls)].result.skipped_tests]
       IN calls' = Append(calls,
                          Call(i, log, Returns(gin_disjoint(gin_scan(splitlines(log), kept)))))
    /\ UNCHANGED <<adapter, inst, evalVars, chainVars, shVars, certVars, buildVars, prepVars, regVars, conVars, collectVars>>

\* gin InstanceTemplate.parse_log(self, test_log) on Instance i
GinParseLog(i, log) ==
    /\ adapter = "gin"
    /\ test_log' = log
    /\ calls' = Append(calls, Call(i, log, gin_parse_log(log)))
    /\ UNCHANGED <<adapter, inst, evalVars, chainVars, shVars, certVars, buildVars, prepVars, regVars, conVars, collectVars>>

\* dubbo InstanceTemplate.parse_log(self, test_log) on Instance i
DubboParseLog(i, log) ==
    /\ adapter = "dubbo"
    /\ test_log' = log
    /\ calls' = Append(calls, Call(i, log, dubbo_parse_log(log)))
    /\ UNCHANGED <<adapter, inst, evalVars, chainVars, shVars, certVars, buildVars, prepVars, regVars, conVars, collectVars>>

\* One phase: the phase's output is parsed once.
Init ==
    /\ adapter \in Adapters
    /\ inst = NewInstances
    /\ test_log \in Logs(adapter)
    /\ calls = <<>>
    /\ NoEval /\ NoWalk /\ NoShell /\ NoCert
    /\ NoBuild /\ NoPrep /\ NoReg /\ NoCon /\ NoCollect

Next ==
    /\ calls = <<>>
    /\ \E i \in InstIds : GinParseLog(i, test_log) \/ DubboParseLog(i, test_log)

Spec == Init /\ [][Next]_vars

\* ------------------------------------------------- claims on parse_log

Disjoint(r) ==
    /\ r.passed_tests \cap r.failed_tests = {}
    /\ r.passed_tests \cap r.skipped_tests = {}
    /\ r.failed_tests \cap r.skipped_tests = {}

CountsAgree(r) ==
    /\ r.passed_count = Cardinality(r.passed_tests)
    /\ r.failed_count = Cardinality(r.failed_tests)
    /\ r.skipped_count = Cardinality(r.skipped_tests)

AllTests(r) == r.passed_tests \cup r.failed_tests \cup r.skipped_tests

\* Reading of a go test log that does not go through the patterns: the
\* token that follows prefix at the start of a stripped line.
HasPrefix(line, prefix) ==
    Len(line) >= Len(prefix) /\ SubSeq(line, 1, Len(prefix)) = prefix
Blanks(line) == {k \in 1..Len(line) : IsSpace(line[k])}
FirstToken(line) ==
    IF Blanks(line) = {} THEN line
    ELSE SubSeq(line, 1, (CHOOSE k \in Blanks(line) : \A j \in Blanks(line) : k <= j) - 1)
StrippedLines(log) == {strip(splitlines(log)[k]) : k \in 1..Len(splitlines(log))}
\* the names on the "--- <word>: <name>" lines of the log
Marked(log, word) ==
    LET prefix == <<"-", "-", "-", SP, word, ":", SP>>
    IN {FirstToken(SubSeq(l, Len(prefix) + 1, Len(l))) :
          l \in {x \in StrippedLines(log) :
                   HasPrefix(x, prefix) /\ Len(x) > Len(prefix) /\ ~IsSpace(x[Len(prefix) + 1])}}
\* the paths on the "FAIL <path> ..." package lines of the log
FailedPackages(log) ==
    {FirstToken(strip(Tail(l))) :
       l \in {x \in StrippedLines(log) : Len(x) > 1 /\ x[1] = "FAIL" /\ IsSpace(x[2])}}

\* the non-empty pieces of one line that follow "Running" and white space
RunningNames(log) ==
    UNION {{SubSeq(log, a, b) : b \in a..(RunEnd(log, "dot", a) - 1)} :
             a \in UNION {(j + 2)..RunEnd(log, "s", j + 1) :
                            j \in {x \in 1..Len(log) : log[x] = "Running"}}}

GinCalls == IF adapter = "gin" THEN {calls[k] : k \in 1..Len(calls)} ELSE {}
DubboCalls == IF adapter = "dubbo" THEN {calls[k] : k \in 1..Len(calls)} ELSE {}

\* C1: every TestResult the gin adapter's parse_log returns has its three
\* sets pairwise disjoint and each count equal to the size of its set.
C1_GinDisjointCounts ==
    \A c \in GinCalls : ~c.raised /\ Disjoint(c.result) /\ CountsAgree(c.result)

\* a gin call on a log that marks one name as passed, failed and skipped
C1_Witness ==
    \E c \in GinCalls :
        /\ Marked(c.log, "PASS") \cap Marked(c.log, "FAIL") \cap Marked(c.log, "SKIP") # {}
        /\ c.result.failed_count = 1

\* C2: every TestResult the dubbo adapter's parse_log returns has its three
\* sets pairwise disjoint and the counts equal to the set sizes, also when
\* one class name has several blocks with different outcomes.
C2_DubboDisjointCounts ==
    \A c \in DubboCalls : ~c.raised /\ Disjoint(c.result) /\ CountsAgree(c.result)

\* C3: in the gin adapter a name under more than one of the PASS / FAIL /
\* SKIP markers is in exactly one set: failed if a FAIL marker names it,
\* else passed if a PASS marker names it, else skipped, in whatever order
\* the lines come.
C3_GinPrecedence ==
    \A c \in GinCalls :
      LET p == Marked(c.log, "PASS")
          f == Marked(c.log, "FAIL")
          k == Marked(c.log, "SKIP")
          r == c.result
      IN \A x \in p \cup f \cup k :
           /\ x \in f => x \in r.failed_tests /\ x \notin r.passed_tests \cup r.skipped_tests
           /\ x \notin f /\ x \in p =>
                x \in r.passed_tests /\ x \notin r.failed_tests \cup r.skipped_tests
           /\ x \notin f /\ x \notin p =>
                x \in r.skipped_tests /\ x \notin r.failed_tests \cup r.passed_tests

\* the index of the first line of the log that is the given line
LineIndex(log, line) ==
    LET ls == splitlines(log)
        at == {k \in 1..Len(ls) : ls[k] = line}
    IN IF at = {} THEN 0 ELSE CHOOSE k \in at : \A j \in at : k <= j

\* a gin call on a log where TestA is marked SKIP, then PASS, then FAIL
C3_Witness ==
    \E c \in GinCalls :
      LET s1 == LineIndex(c.log, GoTestLine("SKIP", <<"TestA">>))
          p1 == LineIndex(c.log, <<"-", "-", "-", SP, "PASS", ":", SP, "TestA">>)
          f1 == LineIndex(c.log, GoTestLine("FAIL", <<"TestA">>))
      IN 0 < s1 /\ s1 < p1 /\ p1 < f1 /\ c.result.failed_tests = {<<"TestA">>}

\* the log of the end-to-end scenario
ExampleLog ==
    <<"-", "-", "-", SP, "PASS", ":", SP, "TestA", LF,
      "-", "-", "-", SP, "FAIL", ":", SP, "TestB", LF,
      "FAIL", TAB, "pkg", "/", "foo", SP, "0", ".", "01", "s", LF>>

\* C6: the gin adapter's failed set is the names on "--- FAIL:" lines and
\* pkg::<path> for every "FAIL <path>" package line, its passed set the
\* names on "--- PASS:" lines outside the failed set, its skipped set the
\* names on "--- SKIP:" lines outside both; the scenario log gives
\* {TestA} / {TestB, pkg::pkg/foo} / {} with counts 1/2/0; the failure of
\* package P is not the member P.
C6_GinSets ==
    \A c \in GinCalls :
      LET r == c.result
          failed == Marked(c.log, "FAIL") \cup {<<"pkg", ":", ":">> \o P : P \in FailedPackages(c.log)}
          passed == Marked(c.log, "PASS") \ failed
      IN /\ r.failed_tests = failed
         /\ r.passed_tests = passed
         /\ r.skipped_tests = (Marked(c.log, "SKIP") \ failed) \ passed
         /\ c.log = ExampleLog =>
              /\ r.passed_tests = {<<"TestA">>}
              /\ r.failed_tests = {<<"TestB">>, <<"pkg", ":", ":", "pkg", "/", "foo">>}
              /\ r.skipped_tests = {}
              /\ <<r.passed_count, r.failed_count, r.skipped_count>> = <<1, 2, 0>>
         /\ \A P \in FailedPackages(c.log) :
              /\ <<"pkg", ":", ":">> \o P \in r.failed_tests
              /\ P \in r.failed_tests <=> P \in Marked(c.log, "FAIL")

\* a gin call on a log where package pkg/foo fails and a test named
\* pkg/foo passes
C6_Witness ==
    \E c \in GinCalls :
        /\ PkgFoo \in FailedPackages(c.log)
        /\ PkgFoo \in c.result.passed_tests
        /\ c.result.failed_count = 2

\* C8: parse_log of both adapters returns a TestResult for every text and
\* never raises, and every member of the three sets is a name taken from a
\* line that matches a pattern: the other lines add nothing.
C8_TotalLossy ==
    /\ \A c \in GinCalls :
         /\ ~c.raised
         /\ AllTests(c.result) \subseteq
              Marked(c.log, "PASS") \cup Marked(c.log, "FAIL") \cup Marked(c.log, "SKIP")
                \cup {<<"pkg", ":", ":">> \o P : P \in FailedPackages(c.log)}
    /\ \A c \in DubboCalls :
         ~c.raised /\ AllTests(c.result) \subseteq RunningNames(c.log)

\* a call of the dubbo adapter on a non-empty text of which no line matches
C8_Witness ==
    \E c \in DubboCalls :
        /\ Len(c.log) > 0
        /\ RunningNames(c.log) = {}
        /\ AllTests(c.result) = {}

\* Several calls on the same Instance objects, each with a text of its own.
InitPure ==
    /\ adapter \in Adapters
    /\ inst = NewInstances
    /\ test_log = <<>>
    /\ calls = <<>>
    /\ NoEval /\ NoWalk /\ NoShell /\ NoCert
    /\ NoBuild /\ NoPrep /\ NoReg /\ NoCon /\ NoCollect

NextPure ==
    /\ Len(calls) < MaxCalls
    /\ \E i \in InstIds : \E log \in PureLogs(adapter) :
          GinParseLog(i, log) \/ DubboParseLog(i, log)

SpecPure == InitPure /\ [][NextPure]_vars

Obj(kind, a, number, ref) == [kind |-> kind, adapter |-> a, number |-> number, ref |-> ref]
InstanceOf(a, p) == Obj("Instance", a, p.number, "")
ImageKinds == {"ImageDefault", "ImageBase"}

\* mutant: the Base image names the Default image as its parent
dependency_loop(n) ==
    CASE n.kind = "Instance" -> Obj("ImageDefault", n.adapter, n.number, "")
      [] n.kind = "ImageDefault" -> Obj("ImageBase", n.adapter, n.number, "")
      [] n.kind = "ImageBase" -> Obj("ImageDefault", n.adapter, n.number, "")

\* InstanceTemplate.dependency, ImageDefault.dependency, ImageBase.dependency
dependency(n) ==
    CASE n.kind = "Instance" -> Obj("ImageDefault", n.adapter, n.number, "")
      [] n.kind = "ImageDefault" -> Obj("ImageBase", n.adapter, n.number, "")
      [] n.kind = "ImageBase" ->
           Obj("str", "", 0, IF n.adapter = "gin" THEN "golang:latest" ELSE "ubuntu:22.04")

\* the caller asks the Instance for its terminal Image
InstanceDependency ==
    /\ node.kind = "Instance"
    /\ node' = dependency(node)
    /\ visited' = <<dependency(node)>>
    /\ UNCHANGED <<adapter, parseVars, evalVars, shVars, certVars, buildVars, prepVars, regVars, conVars, collectVars>>

\* one hop of the walk: dependency() of the Image the walk stands on
ImageDependency ==
    /\ node.kind \in ImageKinds
    /\ node' = dependency(node)
    /\ visited' = Append(visited, dependency(node))
    /\ UNCHANGED <<adapter, parseVars, evalVars, shVars, certVars, buildVars, prepVars, regVars, conVars, collectVars>>

InitChain ==
    /\ adapter \in Adapters
    /\ pr \in PRs(adapter)
    /\ config \in Configs
    /\ node = InstanceOf(adapter, pr)
    /\ visited = <<>>
    /\ NoParse /\ NoShell /\ NoCert
    /\ NoBuild /\ NoPrep /\ NoReg /\ NoCon /\ NoCollect

NextChain == InstanceDependency \/ ImageDependency

SpecChain == InitChain /\ [][NextChain]_vars

\* C10: the walk along dependency() from the terminal Image of every
\* registered Instance stands on Default, then Base, then an external
\* reference: it ends after two Images, never comes back to an object it
\* has been on, and never gets None.
C10_ChainTerminates ==
    /\ node.kind # "None"
    /\ Len(visited) <= 3
    /\ \A j, k \in 1..Len(visited) : j # k => visited[j] # visited[k]
    /\ \A k \in 1..Len(visited) :
         visited[k].kind = (<<"ImageDefault", "ImageBase", "str">>)[k]
    /\ node.kind \notin ImageKinds \cup {"Instance"} =>
         node.kind = "str" /\ node.ref \in {"golang:latest", "ubuntu:22.04"}

\* the walk of a dubbo Instance has reached the external reference
C10_Witness ==
    /\ adapter = "dubbo"
    /\ Len(visited) = 3
    /\ node = Obj("str", "", 0, "ubuntu:22.04")

\* ------------------------------------------------ the staged scripts

\* one command of a shell script; or_true marks the suffix "|| true"
Cmd(op, args) == [op |-> op, args |-> args, or_true |-> FALSE]
OrTrue(c) == [c EXCEPT !.or_true = TRUE]
SetE == Cmd("set -e", <<>>)
Cd(p) == Cmd("cd", <<"/home/" \o p.repo>>)
\* mutant: the patch files in the reverse order
GitApply_reversed(fs) == Cmd("git apply", [k \in 1..Len(fs) |-> fs[Len(fs) + 1 - k]])
\* mutant: every git apply takes both patch files
GitApply_both(fs) == Cmd("git apply", <<"/home/test.patch", "/home/fix.patch">>)
\* mutant: a failing git apply is let through
GitApply_or_true(fs) == OrTrue(Cmd("git apply", fs))
\* mutant: every git apply takes the last of its patch files only
GitApply_last(fs) == Cmd("git apply", <<fs[Len(fs)]>>)
\* git apply [--whitespace=nowarn] <patch files>
GitApply(fs) == Cmd("git apply", fs)
Bash(file) == Cmd("bash", <<file>>)
\* the test command of the adapter: go test -v -count=1 ./... or
\* mvn clean test -Dmaven.test.skip=false -DfailIfNoTests=false
RunTests(a) == Cmd("test", <<IF a = "gin" THEN "go test" ELSE "mvn clean test">>)

\* mutant: the fix patch goes through str.format, which takes its braces
File_formatted(dir, name, content) ==
    [dir |-> dir, name |-> name,
     content |-> IF name = "fix.patch" /\ content = "fix {}" THEN "fix " ELSE content]
\* File(dir, name, content)
File(dir, name, content) == [dir |-> dir, name |-> name, content |-> content]

\* mutant: the test of git status --porcelain is left out
check_git_changes_no_status ==
    <<SetE,
      Cmd("if ! git rev-parse --is-inside-work-tree; then exit 1", <<>>),
      Cmd("echo", <<>>)>>

\* check_git_changes.sh of both adapters
check_git_changes ==
    <<SetE,
      Cmd("if ! git rev-parse --is-inside-work-tree; then exit 1", <<>>),
      Cmd("if [[ -n $(git status --porcelain) ]]; then exit 1", <<>>),
      Cmd("echo", <<>>)>>

\* gin ImageDefault.files()
gin_files(p) ==
    <<File(".", "fix.patch", p.fix_patch),
      File(".", "test.patch", p.test_patch),
      File(".", "run.sh", <<SetE, Cd(p), RunTests("gin")>>),
      File(".", "test-run.sh",
           <<SetE, Cd(p), GitApply(<<"/home/test.patch">>), RunTests("gin")>>),
      File(".", "fix-run.sh",
           <<SetE, Cd(p), GitApply(<<"/home/test.patch", "/home/fix.patch">>),
             RunTests("gin")>>),
      File(".", "check_git_changes.sh", check_git_changes),
      File(".", "resolve_go_file.sh", <<SetE, Cmd("resolve go files", <<"$1">>)>>),
      File(".", "prepare.sh",
           <<SetE, Cd(p), Cmd("git reset --hard", <<>>),
             Bash("/home/check_git_changes.sh"),
             Cmd("git checkout", <<p.base.sha>>),
             Bash("/home/check_git_changes.sh"),
             Cmd("bash", <<"/home/resolve_go_file.sh", "/home/" \o p.repo>>),
             OrTrue(RunTests("gin"))>>)>>

\* dubbo ImageDefault.files()
dubbo_files(p) ==
    <<File(".", "fix.patch", p.fix_patch),
      File(".", "test.patch", p.test_patch),
      File(".", "check_git_changes.sh", check_git_changes \o <<Cmd("exit 0", <<>>)>>),
      File(".", "prepare.sh",
           <<SetE, Cd(p), Cmd("git reset --hard", <<>>),
             Bash("/home/check_git_changes.sh"),
             Cmd("git checkout", <<p.base.sha>>),
             Bash("/home/check_git_changes.sh"),
             OrTrue(RunTests("dubbo"))>>),
      File(".", "run.sh", <<SetE, Cd(p), RunTests("dubbo")>>),
      File(".", "test-run.sh",
           <<SetE, Cd(p), GitApply(<<"/home/test.patch">>), RunTests("dubbo")>>),
      File(".", "fix-run.sh",
           <<SetE, Cd(p), GitApply(<<"/home/test.patch", "/home/fix.patch">>),
             RunTests("dubbo")>>)>>

files(a, p) == IF a = "gin" THEN gin_files(p) ELSE dubbo_files(p)

\* the content of the staged file /home/<name>
Staged(a, p, name) ==
    LET fs == files(a, p)
    IN fs[CHOOSE k \in 1..Len(fs) : fs[k].name = name].content

\* InstanceTemplate.run / test_patch_run / fix_patch_run with cmd = ""
run == "bash /home/run.sh"
test_patch_run == "bash /home/test-run.sh"
fix_patch_run == "bash /home/fix-run.sh"
\* the script each of the three commands runs
ScriptOf(command) ==
    CASE command = run -> "run.sh"
      [] command = test_patch_run -> "test-run.sh"
      [] command = fix_patch_run -> "fix-run.sh"
\* the order in which the caller invokes them
PhaseOrder == <<run, test_patch_run, fix_patch_run>>
PhaseScripts == {ScriptOf(PhaseOrder[k]) : k \in 1..Len(PhaseOrder)}

Event(ev, file) == [ev |-> ev, file |-> file]
Applies(fs) == [k \in 1..Len(fs) |-> Event("apply", fs[k])]
InTree(file) == \E k \in 1..Len(tree) : tree[k] = file

\* the index of the phase that is running (0 before the first)
PhaseNo == IF phase = "" THEN 0
           ELSE CHOOSE k \in 1..Len(PhaseOrder) : ScriptOf(PhaseOrder[k]) = phase

\* The caller starts the next phase: a container of the built image (the
\* tree as prepare.sh left it) or, with reuse, the container of the phase
\* before.
StartPhase(reuse) ==
    /\ status \in {"idle", "ok", "failed"}
    /\ PhaseNo < Len(PhaseOrder)
    /\ reuse => phase # ""
    /\ phase' = ScriptOf(PhaseOrder[PhaseNo + 1])
    /\ ip' = 1
    /\ status' = "running"
    /\ errexit' = FALSE
    /\ tree' = IF reuse THEN tree ELSE <<>>
    /\ trace' = <<>>
    /\ UNCHANGED <<adapter, parseVars, evalVars, chainVars, certVars, buildVars, prepVars, regVars, conVars, collectVars>>

\* what the command does when it exits with 0
Effect(c) ==
    CASE c.op = "set -e" -> errexit' = TRUE /\ UNCHANGED <<tree, trace>>
      [] c.op = "cd" -> UNCHANGED <<errexit, tree, trace>>
      [] c.op = "git apply" ->
           /\ tree' = tree \o c.args
           /\ trace' = trace \o Applies(c.args)
           /\ UNCHANGED errexit
      [] c.op = "test" ->
           /\ trace' = Append(trace, Event("test", ""))
           /\ UNCHANGED <<errexit, tree>>

\* the text of the staged file with the given path in the container (the
\* Dockerfile copies every File to /home/)
TextAt(path) ==
    LET fs == files(adapter, pr)
    IN fs[CHOOSE k \in 1..Len(fs) : "/home/" \o fs[k].name = path].content

\* git apply exits non-zero on a patch the tree already has and on an
\* empty patch file
Rejected(c) ==
    c.op = "git apply" /\ \E k \in 1..Len(c.args) : InTree(c.args[k]) \/ TextAt(c.args[k]) = ""

\* bash runs the next command of the script; it exits with 0 (ok) or not.
\* git apply is all or nothing; the test command has run the suite also
\* when it exits non-zero.
ExecStep(ok) ==
    /\ status = "running"
    /\ LET c == Staged(adapter, pr, phase)[ip]
           last == ip = Len(Staged(adapter, pr, phase))
       IN /\ c.op = "set -e" => ok
          /\ Rejected(c) => ~ok
          /\ IF ok THEN Effect(c)
             ELSE IF c.op = "test"
                  THEN trace' = Append(trace, Event("test", "")) /\ UNCHANGED <<errexit, tree>>
                  ELSE UNCHANGED <<errexit, tree, trace>>
          /\ IF ~ok /\ errexit /\ ~c.or_true
             THEN status' = "failed" /\ ip' = ip
             ELSE IF last
                  THEN status' = (IF ok \/ c.or_true THEN "ok" ELSE "failed") /\ ip' = ip
                  ELSE status' = "running" /\ ip' = ip + 1
    /\ UNCHANGED <<adapter, parseVars, evalVars, chainVars, certVars, buildVars, prepVars, regVars, conVars, collectVars, phase>>

InitScripts ==
    /\ adapter \in Adapters
    /\ pr \in PRs(adapter)
    /\ config \in Configs
    /\ NoParse /\ NoWalk /\ NoShell /\ NoCert
    /\ NoBuild /\ NoPrep /\ NoReg /\ NoCon /\ NoCollect

NextScripts == (\E reuse \in BOOLEAN : StartPhase(reuse)) \/ (\E ok \in BOOLEAN : ExecStep(ok))

SpecScripts == InitScripts /\ [][NextScripts]_vars

\* the patch files the running script has applied, in order
Applied == [k \in 1..Cardinality({j \in 1..Len(trace) : trace[j].ev = "apply"}) |->
              trace[CHOOSE j \in 1..Len(trace) :
                      /\ trace[j].ev = "apply"
                      /\ Cardinality({i \in 1..j : trace[i].ev = "apply"}) = k].file]
Tested == \E k \in 1..Len(trace) : trace[k].ev = "test"
IsPrefix(u, v) == Len(u) <= Len(v) /\ SubSeq(v, 1, Len(u)) = u

\* C4: fix-run.sh of both adapters applies test.patch, then fix.patch, and
\* only then runs the test suite.
C4_FixPatchOrder ==
    phase = "fix-run.sh" =>
      /\ IsPrefix(trace, <<Event("apply", "/home/test.patch"),
                           Event("apply", "/home/fix.patch"),
                           Event("test", "")>>)
      /\ Tested => Applied = <<"/home/test.patch", "/home/fix.patch">>

\* fix-run.sh of the dubbo adapter has run the suite and exited with 0
C4_Witness ==
    /\ adapter = "dubbo" /\ phase = "fix-run.sh" /\ status = "ok"
    /\ Tested /\ Len(trace) = 3
    /\ tree = <<"/home/test.patch", "/home/fix.patch">>

\* C7: of both adapters, run.sh applies no patch, test-run.sh applies
\* test.patch and never fix.patch, fix-run.sh applies both, each before
\* it runs the suite.
C7_PhasePatchSets ==
    /\ phase = "run.sh" => Applied = <<>>
    /\ phase = "test-run.sh" =>
         /\ IsPrefix(Applied, <<"/home/test.patch">>)
         /\ Tested => Applied = <<"/home/test.patch">>
    /\ phase = "fix-run.sh" =>
         /\ Applied \in {<<>>, <<"/home/test.patch", "/home/fix.patch">>}
         /\ Tested => Applied # <<>>
    /\ Tested => trace[Len(trace)].ev = "test"

\* test-run.sh of the gin adapter has run the suite, after a baseline run
\* that ran it too
C7_Witness ==
    /\ adapter = "gin" /\ phase = "test-run.sh" /\ status \in {"ok", "failed"}
    /\ Tested /\ Applied = <<"/home/test.patch">>

\* the command the running phase script is at
AtCmd == Staged(adapter, pr, phase)[ip]
PatchPhases == {"test-run.sh", "fix-run.sh"}
\* git apply has just exited non-zero in the running script
ApplyFails ==
    /\ status = "running" /\ phase \in PatchPhases /\ AtCmd.op = "git apply"
    /\ trace' = trace /\ phase' = phase

\* C15: when git apply exits non-zero in test-run.sh or fix-run.sh the
\* script ends there with failure, having applied nothing and never running
\* the test command; the phase started after it begins at its first
\* command, with nothing of the failed script carried over.
C15_ApplyFailureStops ==
    /\ [](phase \in PatchPhases =>
            /\ Tested => Applied # <<>>
            /\ (status = "failed" /\ AtCmd.op = "git apply") => trace = <<>>
            /\ status = "ok" => Tested)
    /\ [][/\ ApplyFails => status' = "failed" /\ ip' = ip /\ tree' = tree
          /\ (status = "failed" /\ phase' # phase) =>
               /\ status' = "running" /\ ip' = 1 /\ trace' = <<>> /\ ~errexit'
               /\ tree' \in {<<>>, tree}
               /\ phase' = ScriptOf(PhaseOrder[PhaseNo + 1])]_vars

\* fix-run.sh has ended at its git apply, which rejected the empty
\* fix.patch and applied nothing of test.patch either
C15_Witness ==
    /\ phase = "fix-run.sh" /\ status = "failed" /\ AtCmd.op = "git apply"
    /\ pr.test_patch # "" /\ pr.fix_patch = ""
    /\ tree = <<>> /\ trace = <<>>

\* ---------------------------------------------------- certification

\* the tests of the end-to-end scenario
CertTests == {"T1", "T2", "T3"}

\* the TestResults a phase can give on them
CertResults ==
    {TestResult(P, F, S) :
       <<P, F, S>> \in {x \in (SUBSET CertTests) \X (SUBSET CertTests) \X (SUBSET CertTests) :
                          /\ x[1] \cap x[2] = {}
                          /\ x[1] \cap x[3] = {}
                          /\ x[2] \cap x[3] = {}}}

\* mutant: the regression check is left out
certified_fixed_only(r1, r2, r3) ==
    (r2.failed_tests \ r1.failed_tests) \subseteq r3.passed_tests

\* (tests failing in phase 2 that are not failing in phase 1) are all
\* passing in phase 3, and no test passing in phase 1 or phase 2 is failing
\* in phase 3
certified(r1, r2, r3) ==
    /\ (r2.failed_tests \ r1.failed_tests) \subseteq r3.passed_tests
    /\ (r1.passed_tests \cup r2.passed_tests) \cap r3.failed_tests = {}

\* the TestResult of the next phase comes in
PhaseResult(r) ==
    /\ Len(results) < Len(PhaseOrder)
    /\ results' = Append(results, r)
    /\ UNCHANGED <<adapter, parseVars, evalVars, chainVars, shVars, buildVars, prepVars, regVars, conVars, collectVars, verdict>>

\* the caller compares the three TestResults
Certify ==
    /\ Len(results) = Len(PhaseOrder)
    /\ verdict = "none"
    /\ verdict' = IF certified(results[1], results[2], results[3]) THEN "valid" ELSE "invalid"
    /\ UNCHANGED <<adapter, parseVars, evalVars, chainVars, shVars, buildVars, prepVars, regVars, conVars, collectVars, results>>

InitCert ==
    /\ adapter \in Adapters
    /\ NoEval /\ NoParse /\ NoWalk /\ NoShell /\ NoCert
    /\ NoBuild /\ NoPrep /\ NoReg /\ NoCon /\ NoCollect

NextCert == (\E r \in CertResults : PhaseResult(r)) \/ Certify

SpecCert == InitCert /\ [][NextCert]_vars

\* a test that keeps the PR from being certified
Blocks(t) ==
    \/ t \in results[2].failed_tests /\ t \notin results[1].failed_tests
         /\ t \notin results[3].passed_tests
    \/ t \in results[1].passed_tests \cup results[2].passed_tests
         /\ t \in results[3].failed_tests

\* C5: a PR is certified exactly when every test that fails in phase 2 and
\* not in phase 1 passes in phase 3 and no test that passes in phase 1 or 2
\* fails in phase 3; phase 2 failing {T1, T2} with phase 3 passing
\* {T1, T2, T3} and no regression is certified, and a phase 3 that still
\* fails T2 is not.
C5_Certification ==
    verdict # "none" =>
      /\ verdict = "valid" <=> ~\E t \in CertTests : Blocks(t)
      /\ results[2].failed_tests = {"T1", "T2"} =>
           /\ results[3].passed_tests = {"T1", "T2", "T3"} => verdict = "valid"
           /\ "T2" \in results[3].failed_tests => verdict = "invalid"

\* C5 as amended: the same, where the phase 3 that still fails T2 is not
\* certified when T2 does not fail in phase 1 already.
C5_CertificationAmended ==
    verdict # "none" =>
      /\ verdict = "valid" <=> ~\E t \in CertTests : Blocks(t)
      /\ results[2].failed_tests = {"T1", "T2"} =>
           /\ results[3].passed_tests = {"T1", "T2", "T3"} => verdict = "valid"
           /\ "T2" \in results[3].failed_tests /\ "T2" \notin results[1].failed_tests =>
                verdict = "invalid"

\* the scenario: phase 2 fails T1 and T2, phase 3 fixes T1 and still
\* fails T2, which the baseline did not fail; not certified
C5_Witness ==
    /\ verdict = "invalid"
    /\ results[1].failed_tests = {}
    /\ results[2].failed_tests = {"T1", "T2"}
    /\ results[3].passed_tests = {"T1", "T3"}
    /\ results[3].failed_tests = {"T2"}

\* ----------------------------------------------------- the image build

\* one instruction of a Dockerfile (the blank lines of the text carry none)
Ins(op, args) == [op |-> op, args |-> args]

\* the blocks the caller may supply as global_env and as clear_env
GlobalEnvs == {<<>>, <<Ins("ENV", <<"http_proxy", "http://proxy:3128">>)>>}
ClearEnvs == {<<>>, <<Ins("ENV", <<"http_proxy", "">>)>>}
Envs == {[global_env |-> g, clear_env |-> c] : g \in GlobalEnvs, c \in ClearEnvs}

\* Image.image_name(): the name of the images of the repository
image_name(p) == p.org \o "/" \o p.repo
\* ImageBase.image_tag / ImageDefault.image_tag
image_tag(kind, p) == IF kind = "ImageBase" THEN "base" ELSE "pr-" \o ToString(p.number)
\* ImageBase.workdir / ImageDefault.workdir
workdir(kind, p) == IF kind = "ImageBase" THEN "base" ELSE "pr-" \o ToString(p.number)
\* Image.image_full_name(): name:tag
image_full_name(kind, p) == image_name(p) \o ":" \o image_tag(kind, p)

\* ImageBase.dockerfile: code, by config.need_clone
SourceCode(p, c) ==
    IF c.need_clone
    THEN Ins("RUN", <<"git clone", "https://github.com/" \o p.org \o "/" \o p.repo \o ".git",
                      "/home/" \o p.repo>>)
    ELSE Ins("COPY", <<p.repo, "/home/" \o p.repo>>)

\* ImageBase.dockerfile: image_name, the dependency or its full name
BaseFrom(a, p) ==
    LET d == dependency(Obj("ImageBase", a, p.number, ""))
    IN IF d.kind \in ImageKinds THEN image_full_name(d.kind, p) ELSE d.ref

\* mutant: the source is acquired after the clear_env block
ImageBase_dockerfile_late(a, p, c, e) ==
    <<Ins("FROM", <<BaseFrom(a, p)>>)>> \o e.global_env
      \o <<Ins("WORKDIR", <<"/home/">>)>> \o e.clear_env \o <<SourceCode(p, c)>>

\* mutant: the source is cloned whatever need_clone says
ImageBase_dockerfile_clone(a, p, c, e) ==
    <<Ins("FROM", <<BaseFrom(a, p)>>)>> \o e.global_env
      \o <<Ins("WORKDIR", <<"/home/">>), SourceCode(p, [need_clone |-> TRUE])>> \o e.clear_env

\* ImageBase.dockerfile of the gin and of the dubbo adapter
ImageBase_dockerfile(a, p, c, e) ==
    <<Ins("FROM", <<BaseFrom(a, p)>>)>> \o e.global_env
      \o (IF a = "gin"
          THEN <<Ins("WORKDIR", <<"/home/">>), SourceCode(p, c)>>
          ELSE <<Ins("ENV", <<"DEBIAN_FRONTEND", "noninteractive">>),
                 Ins("ENV", <<"LANG", "C.UTF-8">>),
                 Ins("ENV", <<"LC_ALL", "C.UTF-8">>),
                 Ins("WORKDIR", <<"/home/">>),
                 Ins("RUN", <<"apt-get update && apt-get install -y git openjdk-11-jdk">>),
                 Ins("RUN", <<"apt-get install -y maven">>),
                 SourceCode(p, c)>>)
      \o e.clear_env

\* copy_cmds: one COPY per File of files()
copy_cmds(a, p) ==
    [k \in 1..Len(files(a, p)) |-> Ins("COPY", <<files(a, p)[k].name, "/home/">>)]

\* ImageDefault.dockerfile: FROM {name}:{tag} of the parent
DefaultFrom(a, p) ==
    LET parent == dependency(Obj("ImageDefault", a, p.number, ""))
    IN image_name(p) \o ":" \o image_tag(parent.kind, p)

\* ImageDefault.dockerfile of the gin and of the dubbo adapter
ImageDefault_dockerfile(a, p, c, e) ==
    <<Ins("FROM", <<DefaultFrom(a, p)>>)>> \o e.global_env \o copy_cmds(a, p)
      \o (IF a = "gin"
          THEN <<Ins("RUN", <<"chmod +x", "/home/prepare.sh", "/home/run.sh",
                              "/home/test-run.sh", "/home/fix-run.sh",
                              "/home/check_git_changes.sh", "/home/resolve_go_file.sh">>)>>
          ELSE <<>>)
      \o <<Ins("RUN", <<"bash", "/home/prepare.sh">>)>>
      \o e.clear_env

\* the layers of the chain, parent first
Layers == <<"ImageBase", "ImageDefault">>
LayerNo == IF layer = "" THEN 0 ELSE CHOOSE k \in 1..Len(Layers) : Layers[k] = layer

\* a file of the image: where it came from, its content, its executable bit
Entry(name, content) == [name |-> name, content |-> content, x |-> FALSE]
HasArg(i, path) == \E k \in 2..Len(i.args) : i.args[k] = path

\* The caller renders the next layer of the chain, parent first, and hands
\* it to the build backend; the image starts as the parent's image.
StartLayer ==
    /\ bi = Len(dockerfile) + 1 \/ layer = ""
    /\ LayerNo < Len(Layers)
    /\ layer' = Layers[LayerNo + 1]
    /\ dockerfile' = IF layer = "" THEN ImageBase_dockerfile(adapter, pr, config, env)
                     ELSE ImageDefault_dockerfile(adapter, pr, config, env)
    /\ bi' = 1
    /\ built' = <<>>
    /\ UNCHANGED <<adapter, parseVars, evalVars, chainVars, shVars, certVars,
                   env, home, prepVars, regVars, conVars, collectVars>>

\* The build backend executes the next instruction of the Dockerfile.
BuildStep ==
    /\ layer # ""
    /\ bi <= Len(dockerfile)
    /\ LET i == dockerfile[bi]
       IN /\ home' =
               CASE i.op = "COPY" /\ i.args[2] = "/home/" ->
                      Append(home, Entry(i.args[1], Staged(adapter, pr, i.args[1])))
                 [] i.op = "COPY" /\ i.args[2] # "/home/" ->
                      Append(home, Entry(i.args[1], "copied"))
                 [] i.op = "RUN" /\ i.args[1] = "git clone" ->
                      Append(home, Entry(pr.repo, "cloned"))
                 [] i.op = "RUN" /\ i.args[1] = "chmod +x" ->
                      [k \in 1..Len(home) |->
                         IF HasArg(i, "/home/" \o home[k].name)
                         THEN [home[k] EXCEPT !.x = TRUE] ELSE home[k]]
                 [] OTHER -> home
          /\ built' = Append(built, i)
    /\ bi' = bi + 1
    /\ UNCHANGED <<adapter, parseVars, evalVars, chainVars, shVars, certVars,
                   env, layer, dockerfile, prepVars, regVars, conVars, collectVars>>

InitBuild ==
    /\ adapter \in Adapters
    /\ pr \in PRs(adapter)
    /\ config \in Configs
    /\ env \in Envs
    /\ layer = "" /\ dockerfile = <<>> /\ bi = 0 /\ home = <<>> /\ built = <<>>
    /\ NoParse /\ NoWalk /\ NoShell /\ NoCert /\ NoPrep /\ NoReg /\ NoCon /\ NoCollect

NextBuild == StartLayer \/ BuildStep

SpecBuild == InitBuild /\ [][NextBuild]_vars

\* the index of the first executed instruction that is the given one (0: none)
BuiltAt(i) == IF \E k \in 1..Len(built) : built[k] = i
              THEN CHOOSE k \in 1..Len(built) : built[k] = i /\ \A j \in 1..(k - 1) : built[j] # i
              ELSE 0
InHome(name) == \E k \in 1..Len(home) : home[k].name = name
HomeEntry(name) == home[CHOOSE k \in 1..Len(home) : home[k].name = name]
PatchNames == {"fix.patch", "test.patch"}
RunPrepare == Ins("RUN", <<"bash", "/home/prepare.sh">>)

\* the files of files() that are shell scripts
ScriptNames ==
    {files(adapter, pr)[k].name : k \in 1..Len(files(adapter, pr))} \ PatchNames

\* C11: in the Default layer of every registered adapter, when the build
\* invokes prepare.sh every File of files() has been copied into /home/ and
\* every staged shell script has been made executable.
C11_DefaultLayerOrder ==
    (layer = "ImageDefault" /\ BuiltAt(RunPrepare) > 0) =>
      /\ \A k \in 1..Len(files(adapter, pr)) : InHome(files(adapter, pr)[k].name)
      /\ \A nm \in ScriptNames : InHome(nm) /\ HomeEntry(nm).x

\* the reference the FROM line of the layer under construction has to name
ParentRef ==
    IF layer = "ImageBase"
    THEN (IF adapter = "gin" THEN "golang:latest" ELSE "ubuntu:22.04")
    ELSE pr.org \o "/" \o pr.repo \o ":base"
\* the instructions that are a layer's own, whatever the caller's blocks hold
OwnOps == {"WORKDIR", "RUN", "COPY"}

\* C12: the Dockerfile of every layer is the FROM line naming the immediate
\* parent, then the caller's global_env block, then the layer's own
\* instructions, then the caller's clear_env block, and the build executes
\* it in that order.
C12_DockerfileSections ==
    layer # "" =>
      LET g == Len(env.global_env)
          c == Len(env.clear_env)
          n == Len(dockerfile)
      IN /\ dockerfile[1] = Ins("FROM", <<ParentRef>>)
         /\ \A k \in 2..n : dockerfile[k].op # "FROM"
         /\ n > 1 + g + c
         /\ SubSeq(dockerfile, 2, 1 + g) = env.global_env
         /\ SubSeq(dockerfile, n - c + 1, n) = env.clear_env
         /\ \A k \in 1..n : dockerfile[k].op \in OwnOps => 1 + g < k /\ k <= n - c
         /\ \E k \in (2 + g)..(n - c) : dockerfile[k].op \in OwnOps
         /\ IsPrefix(built, dockerfile)

\* the Default layer of a dubbo evaluation is built, with both blocks given
C12_Witness ==
    /\ adapter = "dubbo" /\ layer = "ImageDefault" /\ built = dockerfile
    /\ env.global_env # <<>> /\ env.clear_env # <<>>
    /\ built[Len(built) - 1] = RunPrepare

CloneIns ==
    Ins("RUN", <<"git clone", "https://github.com/" \o pr.org \o "/" \o pr.repo \o ".git",
                 "/home/" \o pr.repo>>)
CopyIns == Ins("COPY", <<pr.repo, "/home/" \o pr.repo>>)
Occurs(seq, i) == Cardinality({k \in 1..Len(seq) : seq[k] = i})
AcquiresSource(i) == i.op = "COPY" \/ (i.op = "RUN" /\ i.args[1] = "git clone")

\* C17: the Dockerfile of the Base layer holds the git clone of the
\* repository and no COPY when need_clone is true, the COPY of the staged
\* directory and no git clone when it is false: one of the two, once,
\* whatever the pull request and the environment blocks are.
C17_NeedClone ==
    layer = "ImageBase" =>
      /\ Occurs(dockerfile, CloneIns) = (IF config.need_clone THEN 1 ELSE 0)
      /\ Occurs(dockerfile, CopyIns) = (IF config.need_clone THEN 0 ELSE 1)
      /\ \A k \in 1..Len(dockerfile) :
           AcquiresSource(dockerfile[k]) => dockerfile[k] \in {CloneIns, CopyIns}
      /\ built = dockerfile =>
           home = <<Entry(pr.repo, IF config.need_clone THEN "cloned" ELSE "copied")>>

\* the Base layer of a dubbo evaluation is built from the staged copy
C17_Witness ==
    /\ adapter = "dubbo" /\ layer = "ImageBase" /\ ~config.need_clone
    /\ built = dockerfile /\ InHome("dubbo")
    /\ BuiltAt(CopyIns) = Len(built) - Len(env.clear_env)

FixedNames == {"fix.patch", "test.patch", "run.sh", "test-run.sh", "fix-run.sh",
               "check_git_changes.sh", "prepare.sh"}

\* C20: files() of the Default layer holds one File under each of the fixed
\* names, fix.patch with the text of pr.fix_patch and test.patch with the
\* text of pr.test_patch, and these are what the build puts into /home/.
C20_StagedFiles ==
    LET fs == files(adapter, pr)
    IN /\ \A nm \in FixedNames : Cardinality({k \in 1..Len(fs) : fs[k].name = nm}) = 1
       /\ \A k \in 1..Len(fs) :
            /\ fs[k].name = "fix.patch" => fs[k].content = pr.fix_patch
            /\ fs[k].name = "test.patch" => fs[k].content = pr.test_patch
       /\ (layer = "ImageDefault" /\ built = dockerfile) =>
            /\ \A nm \in FixedNames : InHome(nm)
            /\ HomeEntry("fix.patch").content = pr.fix_patch
            /\ HomeEntry("test.patch").content = pr.test_patch

\* the Default layer of a gin pull request with braces in its fix patch
\* and an empty test patch is built
C20_Witness ==
    /\ adapter = "gin" /\ layer = "ImageDefault" /\ built = dockerfile
    /\ pr.fix_patch = "fix {}" /\ pr.test_patch = ""
    /\ InHome("fix.patch") /\ HomeEntry("fix.patch").content = "fix {}"

\* --------------------------------------------------------- prepare.sh

\* the source tree in /home/<repo>: whether it is a git work tree, what
\* git status would list, the commit that is checked out
Trees ==
    {[repo |-> r, changes |-> ch, head |-> "HEAD"] :
       r \in BOOLEAN, ch \in SUBSET {"modified", "untracked"}}

\* a script bash is running: its next command, and whether set -e is on
Frame(script) == [script |-> script, ip |-> 1, errexit |-> FALSE]
\* a command that has run: the script it is of, its exit status, and the
\* tree it ran on
Ran(script, op, exit) == [script |-> script, op |-> op, exit |-> exit, wt |-> wt]

\* the staged file at a path of the container
NameAt(path) ==
    LET fs == files(adapter, pr)
    IN fs[CHOOSE k \in 1..Len(fs) : "/home/" \o fs[k].name = path].name

\* the commands that write to the working tree
Writes(op) == op \in {"git reset --hard", "git checkout", "git apply", "resolve go files"}

\* The command c of script s runs; ok: the program it starts exits with 0
\* where the tree lets it; touch: resolve_go_file.sh finds a file to rewrite.
\* kind "next": the script goes on (under set -e: if exit is 0); "exit":
\* the script leaves with the status exit.
Outcome(s, c, ok, touch) ==
    LET st == IF ok THEN 0 ELSE 1
        git == IF ok /\ wt.repo THEN 0 ELSE 1
        simple(e, w) == [kind |-> "next", exit |-> e, events |-> <<Ran(s, c.op, e)>>, wt |-> w]
    IN CASE c.op = "git reset --hard" ->
              simple(git, IF git = 0 THEN [wt EXCEPT !.changes = @ \ {"modified"}] ELSE wt)
         [] c.op = "git checkout" ->
              simple(git, IF git = 0 THEN [wt EXCEPT !.head = c.args[1]] ELSE wt)
         [] c.op = "resolve go files" ->
              simple(st, IF ok /\ touch THEN [wt EXCEPT !.changes = @ \cup {"modified"}] ELSE wt)
         [] c.op = "if ! git rev-parse --is-inside-work-tree; then exit 1" ->
              [kind |-> IF git = 0 THEN "next" ELSE "exit",
               exit |-> IF git = 0 THEN 0 ELSE 1,
               events |-> <<Ran(s, "git rev-parse", git)>>, wt |-> wt]
         [] c.op = "if [[ -n $(git status --porcelain) ]]; then exit 1" ->
              LET listed == git = 0 /\ wt.changes # {}
              IN [kind |-> IF listed THEN "exit" ELSE "next",
                  exit |-> IF listed THEN 1 ELSE 0,
                  events |-> <<Ran(s, "git status --porcelain", git)>>, wt |-> wt]
         [] c.op = "exit 0" -> [kind |-> "exit", exit |-> 0, events |-> <<>>, wt |-> wt]
         [] OTHER -> simple(st, wt)

\* Settle: the command the innermost script is at has ended with status e.
\* Leave: the innermost script ends with status e, which is the status of
\* the bash command of the script that called it.
RECURSIVE Settle(_, _, _), Leave(_, _, _)
Settle(stk, e, evs) ==
    LET f == stk[Len(stk)]
        script == Staged(adapter, pr, f.script)
        c == script[f.ip]
    IN IF e # 0 /\ f.errexit /\ ~c.or_true THEN Leave(stk, e, evs)
       ELSE IF f.ip = Len(script) THEN Leave(stk, IF c.or_true THEN 0 ELSE e, evs)
       ELSE [stack |-> [stk EXCEPT ![Len(stk)].ip = @ + 1], events |-> evs, exit |-> e]
Leave(stk, e, evs) ==
    LET f == stk[Len(stk)]
        rest == SubSeq(stk, 1, Len(stk) - 1)
        left == Append(evs, [script |-> f.script, op |-> "exit", exit |-> e, wt |-> wt'])
    IN IF rest = <<>> THEN [stack |-> <<>>, events |-> left, exit |-> e]
       ELSE LET g == rest[Len(rest)]
                call == Staged(adapter, pr, g.script)[g.ip]
            IN Settle(rest, e,
                      Append(left, [script |-> g.script, op |-> "bash " \o call.args[1],
                                    exit |-> e, wt |-> wt']))

\* bash starts a staged script in the tree: prepare.sh, as the Dockerfile
\* does, or check_git_changes.sh by itself
StartScript(name) ==
    /\ pstatus = "idle"
    /\ stack' = <<Frame(name)>>
    /\ pstatus' = "running"
    /\ UNCHANGED <<adapter, parseVars, evalVars, chainVars, shVars, certVars,
                   buildVars, wt, ptrace, regVars, conVars, collectVars>>

\* bash runs the next command of the innermost script
PrepStep(ok, touch) ==
    /\ pstatus = "running"
    /\ LET f == stack[Len(stack)]
           c == Staged(adapter, pr, f.script)[f.ip]
       IN /\ touch => c.op = "resolve go files" /\ ok
          /\ ~ok => c.op \notin {"set -e", "exit 0", "bash"}
          /\ IF c.op = "bash"
             THEN /\ stack' = Append(stack, Frame(NameAt(c.args[1])))
                  /\ UNCHANGED <<wt, ptrace, pstatus>>
             ELSE LET o == Outcome(f.script, c, ok, touch)
                      on == IF c.op = "set -e"
                            THEN [stack EXCEPT ![Len(stack)].errexit = TRUE] ELSE stack
                  IN /\ wt' = o.wt
                     /\ LET r == IF o.kind = "exit" THEN Leave(on, o.exit, o.events)
                                 ELSE Settle(on, o.exit, o.events)
                        IN /\ stack' = r.stack
                           /\ ptrace' = ptrace \o r.events
                           /\ pstatus' = IF r.stack # <<>> THEN "running"
                                         ELSE IF r.exit = 0 THEN "ok" ELSE "failed"
    /\ UNCHANGED <<adapter, parseVars, evalVars, chainVars, shVars, certVars,
                   buildVars, regVars, conVars, collectVars>>

InitPrepare ==
    /\ adapter \in Adapters
    /\ pr \in PRs(adapter)
    /\ config = [need_clone |-> TRUE]
    /\ wt \in Trees
    /\ stack = <<>> /\ ptrace = <<>> /\ pstatus = "idle"
    /\ NoParse /\ NoWalk /\ NoShell /\ NoCert /\ NoBuild /\ NoReg /\ NoCon /\ NoCollect

NextPrepare ==
    \/ \E name \in {"prepare.sh", "check_git_changes.sh"} : StartScript(name)
    \/ \E ok, touch \in BOOLEAN : PrepStep(ok, touch)

SpecPrepare == InitPrepare /\ [][NextPrepare]_vars

CleanCheck == "bash /home/check_git_changes.sh"
\* the indexes of the commands prepare.sh itself has run
PrepareRan(ops) == {k \in 1..Len(ptrace) : ptrace[k].script = "prepare.sh" /\ ptrace[k].op \in ops}
\* the k-th smallest member of a set of indexes
Nth(S, k) == CHOOSE i \in S : Cardinality({j \in S : j <= i}) = k
\* the steps of prepare.sh the order is about, as they ran
PrepareSteps ==
    LET S == PrepareRan({"git reset --hard", CleanCheck, "git checkout", "test"})
    IN [k \in 1..Cardinality(S) |-> ptrace[Nth(S, k)].op]

\* C13: prepare.sh runs git reset --hard, the clean-check, git checkout of
\* the base commit, the clean-check, then the pre-test pass, and between the
\* second clean-check and the pre-test pass no command runs that writes to
\* the working tree.
C13_PrepareOrder ==
    /\ IsPrefix(PrepareSteps,
                <<"git reset --hard", CleanCheck, "git checkout", CleanCheck, "test">>)
    /\ \A k \in PrepareRan({"git checkout"}) : ptrace[k].exit = 0 => ptrace[k].wt.head = "HEAD"
                                                                     /\ wt.head = pr.base.sha
    /\ \A t \in PrepareRan({"test"}) :
         \A k \in (Nth(PrepareRan({CleanCheck}), 2) + 1)..(t - 1) : ~Writes(ptrace[k].op)

\* the runs of check_git_changes.sh that have ended: the index of the first
\* command and of the exit
CheckRuns ==
    {<<a, b>> \in (1..Len(ptrace)) \X (1..Len(ptrace)) :
       /\ a <= b
       /\ ptrace[b].script = "check_git_changes.sh" /\ ptrace[b].op = "exit"
       /\ \A k \in a..b : ptrace[k].script = "check_git_changes.sh"
       /\ \A k \in a..(b - 1) : ptrace[k].op # "exit"
       /\ a > 1 => ptrace[a - 1].script # "check_git_changes.sh" \/ ptrace[a - 1].op = "exit"}
\* git answers for the tree as it is, and echo prints
Truthful(a, b) ==
    \A k \in a..b :
      /\ ptrace[k].op = "git rev-parse" => (ptrace[k].exit = 0 <=> ptrace[k].wt.repo)
      /\ ptrace[k].op \in {"git status --porcelain", "echo"} => ptrace[k].exit = 0
InPrepare == \E k \in 1..Len(ptrace) : ptrace[k].script = "prepare.sh"

C16_OnlyPreTestTolerated ==
    \A k \in 1..Len(ptrace) :
      (/\ ptrace[k].exit # 0
       /\ ptrace[k].op # "exit"
       /\ ~(ptrace[k].script = "prepare.sh" /\ ptrace[k].op = "test")) =>
        /\ k < Len(ptrace)
        /\ ptrace[k + 1].script = ptrace[k].script
        /\ ptrace[k + 1].op = "exit"
        /\ ptrace[k + 1].exit # 0

\* ------------------------------------------------ the Instance registry

\* the lookups in one behaviour
MaxLookups == 2

\* the (org, repo) pairs a caller may ask for
Orgs == {"gin-gonic", "apache", "other"}
Repos == {"gin", "dubbo", "other"}

\* Instance.register(org, repo)(cls): the class is entered under the key
register(reg, org, repo, cls) ==
    [k \in DOMAIN reg \cup {<<org, repo>>} |-> IF k = <<org, repo>> THEN cls ELSE reg[k]]

\* the lookup by (org, repo): the registered class, or an explicit failure
lookup(reg, org, repo) ==
    IF <<org, repo>> \in DOMAIN reg
    THEN [raised |-> FALSE, cls |-> reg[<<org, repo>>]]
    ELSE [raised |-> TRUE, cls |-> "ValueError"]

\* the classes that are registered
Registered(reg) == {reg[k] : k \in DOMAIN reg}

\* The module of adapter a is imported: its decorator
\* @Instance.register(org, repo) runs, once.
Import(a) ==
    /\ a \notin Registered(registry)
    /\ registry' = register(registry, Org(a), Repo(a), a)
    /\ UNCHANGED <<adapter, parseVars, evalVars, chainVars, shVars, certVars,
                   buildVars, prepVars, lookups, conVars, collectVars>>

\* A caller resolves the Instance class for (org, repo); the class it gets
\* is the one it evaluates with.
Lookup(org, repo) ==
    /\ Len(lookups) < MaxLookups
    /\ calls = <<>>
    /\ LET l == lookup(registry, org, repo)
       IN /\ lookups' = Append(lookups, [org |-> org, repo |-> repo, raised |-> l.raised,
                                         cls |-> l.cls, classes |-> Registered(registry)])
          /\ adapter' = IF l.raised THEN adapter ELSE l.cls
    /\ UNCHANGED <<parseVars, evalVars, chainVars, shVars, certVars,
                   buildVars, prepVars, registry, conVars, collectVars>>

\* the Instance that was resolved reduces a log
Evaluate ==
    /\ adapter \in Adapters
    /\ calls = <<>>
    /\ \E i \in InstIds : \E log \in PureLogs(adapter) :
          GinParseLog(i, log) \/ DubboParseLog(i, log)

InitRegistry ==
    /\ adapter = ""
    /\ registry = <<>> /\ lookups = <<>>
    /\ NoEval /\ NoParse /\ NoWalk /\ NoShell /\ NoCert /\ NoBuild /\ NoPrep /\ NoCon /\ NoCollect

NextRegistry ==
    \/ \E a \in Adapters : Import(a)
    \/ \E org \in Orgs, repo \in Repos : Lookup(org, repo)
    \/ Evaluate

SpecRegistry == InitRegistry /\ [][NextRegistry]_vars

\* C18: once both adapters are registered, the lookup of (gin-gonic, gin)
\* gives the Go adapter, the lookup of (apache, dubbo) the Java adapter and
\* the lookup of any other pair fails explicitly; a pair that was never
\* registered never gives a class; an entry of the registry never changes,
\* and no lookup and no evaluation changes the registry.
C18_Registry ==
    /\ [](\A k \in 1..Len(lookups) :
            LET l == lookups[k]
            IN /\ l.classes = Adapters =>
                    CASE l.org = "gin-gonic" /\ l.repo = "gin" -> ~l.raised /\ l.cls = "gin"
                      [] l.org = "apache" /\ l.repo = "dubbo" -> ~l.raised /\ l.cls = "dubbo"
                      [] OTHER -> l.raised /\ l.cls \notin Adapters
               /\ <<l.org, l.repo>> \notin {<<"gin-gonic", "gin">>, <<"apache", "dubbo">>} =>
                    l.raised
               /\ ~l.raised => l.cls \in l.classes)
    /\ [][/\ \A k \in DOMAIN registry : k \in DOMAIN registry' /\ registry'[k] = registry[k]
          /\ (lookups' # lookups \/ calls' # calls) => registry' = registry]_vars

\* with both adapters registered, a lookup of (apache, dubbo) gave the Java
\* adapter, a lookup of (apache, gin) failed, and the adapter reduced a log
C18_Witness ==
    /\ Registered(registry) = Adapters
    /\ Len(lookups) = 2
    /\ lookups[1] = [org |-> "apache", repo |-> "gin", raised |-> TRUE, cls |-> "ValueError",
                     classes |-> Adapters]
    /\ lookups[2].org = "apache" /\ lookups[2].repo = "dubbo" /\ lookups[2].cls = "dubbo"
    /\ adapter = "dubbo" /\ calls # <<>>

\* ------------------------------------------ evaluations side by side

\* an evaluation: its adapter and PullRequest, the layers it has handed to
\* the build backend, and whether the last of them is still being built
Evaluation(a, p) == [adapter |-> a, pr |-> p, layer |-> 0, building |-> FALSE]
Evaluations == UNION {{Evaluation(a, p) : p \in PRs(a)} : a \in Adapters}
PullRequestId(p) == <<p.org, p.repo, p.number>>

\* the build context directory of a layer: workdir() under the directory
\* of the repository
ContextDir(ev, kind) == <<ev.pr.org, ev.pr.repo, workdir(kind, ev.pr)>>
\* the image a layer is built as: name:tag
ImageRef(ev, kind) == image_full_name(kind, ev.pr)

\* Evaluation e writes the files and the Dockerfile of its next layer,
\* parent first, into the layer's build context and starts the build.
BeginLayer(e) ==
    /\ ~evals[e].building
    /\ evals[e].layer < Len(Layers)
    /\ evals' = [evals EXCEPT ![e].layer = @ + 1, ![e].building = TRUE]
    /\ UNCHANGED <<adapter, parseVars, evalVars, chainVars, shVars, certVars,
                   buildVars, prepVars, regVars, collectVars>>

\* the build of the layer ends
EndLayer(e) ==
    /\ evals[e].building
    /\ evals' = [evals EXCEPT ![e].building = FALSE]
    /\ UNCHANGED <<adapter, parseVars, evalVars, chainVars, shVars, certVars,
                   buildVars, prepVars, regVars, collectVars>>

InitConcurrent ==
    /\ adapter \in Adapters
    /\ evals \in {<<x, y>> \in Evaluations \X Evaluations :
                    /\ x.adapter = adapter
                    /\ PullRequestId(x.pr) # PullRequestId(y.pr)}
    /\ NoEval /\ NoParse /\ NoWalk /\ NoShell /\ NoCert /\ NoBuild /\ NoPrep /\ NoReg /\ NoCollect

NextConcurrent == \E e \in {1, 2} : BeginLayer(e) \/ EndLayer(e)

SpecConcurrent == InitConcurrent /\ [][NextConcurrent]_vars

\* C19: two evaluations of different pull requests that run side by side
\* use, for every layer of the chain, different build context directories
\* and different image tags, also when the pull requests are of the same
\* repository.
C19_NoSharedBuildResource ==
    \A k \in 1..Len(Layers) :
      (evals[1].layer >= k /\ evals[2].layer >= k) =>
        /\ ContextDir(evals[1], Layers[k]) # ContextDir(evals[2], Layers[k])
        /\ ImageRef(evals[1], Layers[k]) # ImageRef(evals[2], Layers[k])

\* ---------------------------------------------------------------------
\* collect: the retry wrappers around one HTTP request
\* ---------------------------------------------------------------------

\* the largest max_retries a caller passes
MaxRetries == 3

\* int(time.time()) when the wrapper is called
Now == 10

RECURSIVE Power(_, _)
Power(b, n) == IF n = 0 THEN 1 ELSE b * Power(b, n - 1)

Smaller(a, b) == IF a <= b THEN a ELSE b
Larger(a, b) == IF a >= b THEN a ELSE b

\* the header blocks of a response: a value is a text, <<>> when the header
\* is not sent
Headers ==
    {[X_RateLimit_Reset |-> <<>>, Retry_After |-> <<>>],
     [X_RateLimit_Reset |-> <<"1", "2">>, Retry_After |-> <<>>],
     [X_RateLimit_Reset |-> <<"2", "0">>, Retry_After |-> <<>>],
     [X_RateLimit_Reset |-> <<>>, Retry_After |-> <<"2">>],
     [X_RateLimit_Reset |-> <<"soon">>, Retry_After |-> <<"2", "0">>]}

NoHeaders == [X_RateLimit_Reset |-> <<>>, Retry_After |-> <<>>]

\* what one call of request_func (or of urlopen) gives: it raises, or it
\* returns a response that carries its status as .status_code, as .status
\* or not at all
Answer(raises, attr, code, headers, body) ==
    [raises |-> raises, attr |-> attr, status |-> code, headers |-> headers,
     body |-> body]

NoAnswer == Answer("", "", 0, NoHeaders, "")

\* the answers of a requests / aiohttp call
Answers ==
    {Answer("Exception", "", 0, NoHeaders, "")}
    \cup {Answer("", a, 429, h, "") : a \in {"status_code", "status"}, h \in Headers}
    \cup {Answer("", a, 403, NoHeaders, "") : a \in {"status_code", "status"}}
    \cup {Answer("", a, 200, NoHeaders, "") : a \in {"status_code", "status"}}
    \cup {Answer("", "status_code", 500, NoHeaders, ""),
          Answer("", "status", 500, NoHeaders, ""),
          Answer("", "", 0, NoHeaders, "")}

\* the answers of urllib.request.urlopen: a response with a body, an
\* HTTPError with its code, a URLError, or another exception
UrlAnswers ==
    {Answer("", "status", 200, NoHeaders, b) : b \in {"json", "html"}}
    \cup {Answer("HTTPError", "", c, NoHeaders, "") : c \in {429, 403, 404, 500}}
    \cup {Answer("URLError", "", 0, NoHeaders, ""),
          Answer("Exception", "", 0, NoHeaders, "")}

\* the calls of the wrappers
Request(fn, max_retries, initial_backoff, backoff_multiplier, max_backoff) ==
    [fn |-> fn, max_retries |-> max_retries, initial_backoff |-> initial_backoff,
     backoff_multiplier |-> backoff_multiplier, max_backoff |-> max_backoff]

Requests ==
    {Request(fn, n, 1, 2, 3) :
        fn \in {"make_request_with_retry", "async_request_with_retry"},
        n \in 0..MaxRetries}
    \cup {Request("fetch_from_github", 5, 1, 2, 60)}

\* mutant: only 429 counts as a rate limit
is_rate_limited_429(r) == r.status = 429
\* the status of the response is one of the rate limit statuses
is_rate_limited(r) == r.status = 429 \/ r.status = 403

\* min(initial_backoff * backoff_multiplier ** attempt, max_backoff)
backoff_time(req, n) ==
    Smaller(req.initial_backoff * Power(req.backoff_multiplier, n), req.max_backoff)

\* the wait after a rate-limited response: the backoff, raised to the time
\* left until X-RateLimit-Reset (or Retry-After) when that parses as a
\* time after current_time
rate_limit_wait(req, n, r, current_time) ==
    LET reset_time_str == IF r.headers.X_RateLimit_Reset # <<>>
                          THEN r.headers.X_RateLimit_Reset
                          ELSE r.headers.Retry_After
    IN IF reset_time_str # <<>> /\ IntDefined(reset_time_str)
          /\ IntOf(reset_time_str) > current_time
       THEN Larger(backoff_time(req, n), IntOf(reset_time_str) - current_time)
       ELSE backoff_time(req, n)

\* an exception: its class and, for a plain Exception, its message
Error(type, msg) == [type |-> type, msg |-> msg]
None == Error("", "")

Running == [kind |-> "running", error |-> None, response |-> NoAnswer]
Returned(r) == [kind |-> "returned", error |-> None, response |-> r]
Raised(e) == [kind |-> "raised", error |-> e, response |-> NoAnswer]

\* what one iteration of a loop leaves: last_error, the waits it made
\* and how the call goes on
Iteration(err, waits, end) == [last_error |-> err, waits |-> waits, end |-> end]

\* raise last_error if last_error else Exception("Request failed after retries")
AfterLoop(err) ==
    Raised(IF err # None THEN err ELSE Error("Exception", "Request failed after retries"))

\* Exception(f"HTTP 429: Rate limit exceeded"), Exception(f"HTTP 403: ...")
HttpError(r) == Error("Exception", "HTTP " \o ToString(r.status))

\* the except branch of the two wrappers of util.py
ExceptBranch(req, n, e) ==
    IF n < req.max_retries - 1
    THEN Iteration(e, <<backoff_time(req, n)>>, Running)
    ELSE Iteration(e, <<>>, Raised(Error("Exception", "Request failed after attempts")))

\* one iteration of the loop of make_request_with_retry, from the answer
\* of request_func; the wait after a rate-limited response is made on the
\* last attempt too
SyncIteration(req, n, err, r, current_time) ==
    IF r.raises # "" THEN ExceptBranch(req, n, Error(r.raises, ""))
    ELSE IF r.attr # "" /\ is_rate_limited(r)
         THEN Iteration(HttpError(r), <<rate_limit_wait(req, n, r, current_time)>>,
                        IF n < req.max_retries - 1 THEN Running
                        ELSE AfterLoop(HttpError(r)))
         ELSE Iteration(err, <<>>, Returned(r))

\* one iteration of the loop of async_request_with_retry: it reads
\* response.status, and raise_for_status() raises on a status of 400 or more
AsyncIteration(req, n, err, r, current_time) ==
    IF r.raises # "" THEN ExceptBranch(req, n, Error(r.raises, ""))
    ELSE IF r.attr # "status" THEN ExceptBranch(req, n, Error("AttributeError", ""))
    ELSE IF is_rate_limited(r)
         THEN IF n < req.max_retries - 1
              THEN Iteration(HttpError(r),
                             <<rate_limit_wait(req, n, r, current_time)>>, Running)
              ELSE ExceptBranch(req, n, HttpError(r))
    ELSE IF r.status >= 400
         THEN ExceptBranch(req, n, Error("ClientResponseError", ""))
    ELSE Iteration(err, <<>>, Returned(r))

\* one iteration of the loop of make_urllib_request_with_retry: an
\* HTTPError other than 429 and 403 is raised again at once
UrllibIteration(req, n, err, r) ==
    LET e == IF r.raises = "HTTPError" THEN HttpError(r) ELSE Error(r.raises, "")
    IN IF r.raises = "" THEN Iteration(err, <<>>, Returned(r))
       ELSE IF r.raises = "HTTPError" /\ ~is_rate_limited(r)
            THEN Iteration(err, <<>>, Raised(Error("HTTPError", ToString(r.status))))
       ELSE IF n < req.max_retries - 1
            THEN Iteration(e, <<backoff_time(req, n)>>, Running)
            ELSE Iteration(e, <<>>, Raised(e))

\* fetch_from_github, from the end of make_urllib_request_with_retry: the
\* wrapper returns the response out of its own with block, closed, and
\* entering a closed response raises ValueError; of the exceptions only
\* HTTPError, URLError and JSONDecodeError are caught
fetch_from_github(end) ==
    IF end.kind = "returned"
    THEN Raised(Error("ValueError", "I/O operation on closed file"))
    ELSE IF end.error.type \in {"HTTPError", "URLError", "JSONDecodeError"}
         THEN Returned(NoAnswer)
         ELSE end

\* the wrapper is entered: with max_retries = 0 the loop is skipped
Enter ==
    /\ done.kind = "idle"
    /\ done' = IF request.max_retries = 0 THEN AfterLoop(None) ELSE Running
    /\ UNCHANGED <<exceptRetry, request, attempt, last_error, clock,
                   answers, sleeps>>

\* the iteration `attempt` of the loop, with all it does: the call of
\* request_func, the wait, the return or the raise
Iterate(r, step) ==
    /\ done.kind = "running"
    /\ attempt < request.max_retries
    /\ answers' = Append(answers, r)
    /\ attempt' = attempt + 1
    /\ last_error' = step.last_error
    /\ sleeps' = sleeps \o step.waits
    /\ clock' = clock + (IF step.waits = <<>> THEN 0 ELSE step.waits[1])
    /\ done' = IF request.fn = "fetch_from_github" /\ step.end.kind # "running"
               THEN fetch_from_github(step.end) ELSE step.end
    /\ UNCHANGED <<exceptRetry, request>>

make_request_with_retry ==
    /\ request.fn = "make_request_with_retry"
    /\ \E r \in Answers :
         Iterate(r, SyncIteration(request, attempt, last_error, r, clock))

async_request_with_retry ==
    /\ request.fn = "async_request_with_retry"
    /\ \E r \in Answers :
         Iterate(r, AsyncIteration(request, attempt, last_error, r, clock))

make_urllib_request_with_retry ==
    /\ request.fn = "fetch_from_github"
    /\ \E r \in UrlAnswers :
         Iterate(r, UrllibIteration(request, attempt, last_error, r))

InitRetry ==
    /\ adapter = ""
    /\ request \in Requests
    /\ attempt = 0 /\ last_error = None /\ clock = Now
    /\ answers = <<>> /\ sleeps = <<>>
    /\ done = [kind |-> "idle"]
    /\ NoEval /\ NoParse /\ NoWalk /\ NoShell /\ NoCert /\ NoBuild /\ NoPrep
    /\ NoReg /\ NoCon /\ NoToken /\ NoIssue /\ NoPage /\ NoFilter

NextRetry ==
    \/ Enter
    \/ make_request_with_retry
    \/ async_request_with_retry
    \/ make_urllib_request_with_retry

SpecRetry == InitRetry /\ [][NextRetry]_vars

\* the answer is a response that is not rate-limited
Passes(r) == r.raises = "" /\ ~(r.attr # "" /\ (r.status = 429 \/ r.status = 403))

InSync == request.fn = "make_request_with_retry" /\ done.kind # "idle"

\* C21: make_request_with_retry calls request_func at most max_retries
\* times; the first response whose status is neither 429 nor 403 is
\* returned and request_func is not called after it; when each of the
\* max_retries attempts was rate-limited or raised, the call has raised;
\* a rate-limited response is never returned.
C21_RetryBound ==
    InSync =>
      /\ Len(answers) <= request.max_retries
      /\ \A k \in 1..Len(answers) :
           Passes(answers[k]) => k = Len(answers) /\ done = Returned(answers[k])
      /\ (Len(answers) = request.max_retries
          /\ \A k \in 1..Len(answers) : ~Passes(answers[k]))
           => done.kind = "raised"
      /\ done.kind = "returned" => Passes(done.response)

\* all attempts were used, 403 among them, and the call raised
C21_Witness ==
    /\ InSync
    /\ request.max_retries = MaxRetries
    /\ Len(answers) = MaxRetries
    /\ \E k \in 1..Len(answers) : answers[k].status = 403
    /\ \E k \in 1..Len(answers) : answers[k].raises # ""
    /\ done.kind = "raised"

\* a rate-limited attempt was followed by a response that was returned
C21_WitnessReturn ==
    /\ InSync
    /\ Len(answers) = 2
    /\ answers[1].status = 429
    /\ done.kind = "returned"

\* C22: in make_request_with_retry and async_request_with_retry no single
\* wait exceeds max_backoff: each wait is at most
\* min(initial_backoff * backoff_multiplier^attempt, max_backoff),
\* whatever headers the rate-limited response carries.
C22_MaxBackoff ==
    request.fn \in {"make_request_with_retry", "async_request_with_retry"} =>
      \A k \in 1..Len(sleeps) : sleeps[k] <= request.max_backoff

\* C29: fetch_from_github never raises: whatever the underlying request
\* gives, HTTP 403 or 429 on all five attempts included, the call ends by
\* returning (the decoded JSON or None).
C29_NeverRaises ==
    request.fn = "fetch_from_github" => done.kind # "raised"

\* ---------------------------------------------------------------------
\* collect: RateLimitedClient, the rotation of the tokens
\* ---------------------------------------------------------------------

\* how far time.time() advances in one behaviour
MaxTicks == 2

\* self.tokens, in the order of the constructor
Tokens == <<"ghp_a", "ghp_b">>

\* RateLimitStatus(token=token): remaining = 5000, reset_time = 0.0
RateLimitStatus == [remaining |-> 5000, reset_time |-> 0]

\* the rate limit headers of a response, as int() reads them; remaining
\* is 5000 when X-RateLimit-Remaining is missing, and GitHub's reset time
\* lies ahead of the time of the response
RateLimitHeaders(t) ==
    {[limit |-> TRUE, remaining |-> n, reset |-> r] :
        n \in {0, 1, 2, 5000}, r \in {t + 1, t + 2}}
    \cup {[limit |-> FALSE, remaining |-> 0, reset |-> 0]}

\* mutant: a token waits only when nothing remains
should_wait_exhausted(st, now) == st.remaining <= 0
\* RateLimitStatus.should_wait
should_wait(st, now) ==
    IF st.remaining <= 0 THEN TRUE
    ELSE IF st.reset_time > now THEN st.reset_time - now + 1 > 0
    ELSE FALSE

\* the first loop of _get_best_token over the first n tokens:
\* <<best_token, best_remaining>>, 0 standing for None
RECURSIVE best_loop(_, _, _)
best_loop(ts, n, now) ==
    IF n = 0 THEN <<0, -1>>
    ELSE LET b == best_loop(ts, n - 1, now)
             st == ts[Tokens[n]]
         IN IF should_wait(st, now) THEN b
            ELSE IF st.remaining > b[2] THEN <<n, st.remaining>> ELSE b

\* its second loop: the first token with the earliest reset_time
RECURSIVE earliest_loop(_, _)
earliest_loop(ts, n) ==
    IF n = 0 THEN 0
    ELSE LET b == earliest_loop(ts, n - 1)
         IN IF b = 0 \/ ts[Tokens[n]].reset_time < ts[Tokens[b]].reset_time
            THEN n ELSE b

\* RateLimitedClient._get_best_token
get_best_token(ts, now) ==
    LET b == best_loop(ts, Len(Tokens), now)[1]
    IN Tokens[IF b # 0 THEN b ELSE earliest_loop(ts, Len(Tokens))]

\* RateLimitedClient._update_rate_limit(token, response)
update_rate_limit(ts, token, h) ==
    IF token \notin DOMAIN ts \/ ~h.limit THEN ts
    ELSE [ts EXCEPT ![token] = [remaining |-> h.remaining, reset_time |-> h.reset]]

UpdateRateLimit(token, h) ==
    /\ token_status' = update_rate_limit(token_status, token, h)
    /\ best_token' = ""
    /\ UNCHANGED <<exceptToken>>

GetBestToken ==
    /\ best_token' = get_best_token(token_status, clock)
    /\ UNCHANGED <<exceptToken, token_status>>

\* time passes
Tick ==
    /\ clock < Now + MaxTicks
    /\ clock' = clock + 1
    /\ best_token' = ""
    /\ UNCHANGED <<adapter, harnessVars, issueVars, pageVars, filterVars, request,
                   attempt, last_error, answers, sleeps, done, token_status>>

InitTokens ==
    /\ adapter = ""
    /\ token_status = [t \in {Tokens[k] : k \in 1..Len(Tokens)} |-> RateLimitStatus]
    /\ best_token = ""
    /\ request = [fn |-> "", max_retries |-> 0, initial_backoff |-> 0,
                  backoff_multiplier |-> 0, max_backoff |-> 0]
    /\ attempt = 0 /\ last_error = None /\ clock = Now
    /\ answers = <<>> /\ sleeps = <<>> /\ done = [kind |-> "idle"]
    /\ NoEval /\ NoParse /\ NoWalk /\ NoShell /\ NoCert /\ NoBuild /\ NoPrep
    /\ NoReg /\ NoCon /\ NoIssue /\ NoPage /\ NoFilter

NextTokens ==
    \/ \E t \in {Tokens[k] : k \in 1..Len(Tokens)} \cup {"ghp_other"} :
         \E h \in RateLimitHeaders(clock) : UpdateRateLimit(t, h)
    \/ GetBestToken
    \/ Tick

SpecTokens == InitTokens /\ [][NextTokens]_vars

Remaining(t) == token_status[t].remaining

MaxCommits == 1

\* str.lower() on the symbols of the alphabet
Lower(c) ==
    CASE c = "Fixes" -> "fixes"
      [] c = "Refactor" -> "refactor"
      [] OTHER -> c

RECURSIVE lower(_)
lower(s) == IF Len(s) = 0 THEN <<>> ELSE <<Lower(Head(s))>> \o lower(Tail(s))

issue_keywords ==
    {"close", "closes", "closed", "fix", "fixes", "fixed",
     "resolve", "resolves", "resolved"}

\* the symbols of the alphabet in which "ref" occurs; "ref" occurs in the
\* other two extra_refactor_keywords, so one of them is in the text exactly
\* when "ref" is
HasRef(c) == Lower(c) \in {"ref", "refactor", "prefer"}

\* re.compile(r"(\w+)\s*\#(\d+)")
issues_pat ==
    <<Open(1), ClsPlus("w"), Close(1), ClsStar("s"), Lit("#"),
      Open(2), ClsPlus("d"), Close(2)>>

\* r"#(\d+)"
number_pat == <<Lit("#"), Open(1), ClsPlus("d"), Close(1)>>

\* the first index at or after i where w starts in s (0: nowhere)
RECURSIVE find(_, _, _)
find(s, w, i) ==
    IF i + Len(w) - 1 > Len(s) THEN 0
    ELSE IF SubSeq(s, i, i + Len(w) - 1) = w THEN i
    ELSE find(s, w, i + 1)

\* re.sub(r"(?s)<!--.*?-->", "", text): every "<!--" up to the first
\* "-->" after it is taken out; an unclosed "<!--" stays
RECURSIVE sub_comments(_)
sub_comments(s) ==
    LET a == find(s, <<"<", "!", "-", "-">>, 1)
        b == IF a = 0 THEN 0 ELSE find(s, <<"-", "-", ">">>, a + 4)
    IN IF b = 0 THEN s
       ELSE SubSeq(s, 1, a - 1) \o sub_comments(SubSeq(s, b + 3, Len(s)))

\* "\n".join(msgs)
RECURSIVE join(_)
join(msgs) ==
    IF Len(msgs) = 0 THEN <<>>
    ELSE IF Len(msgs) = 1 THEN msgs[1]
    ELSE msgs[1] \o <<LF>> \o join(Tail(msgs))

\* title + "\n" + body + "\n" + "\n".join(commits_msgs), less the comments
pull_text(p) ==
    sub_comments(p.title \o <<LF>> \o p.body \o <<LF>> \o join(p.commits))

\* mutant: every pair of the findall list is kept
references_all(found) == DOMAIN found
\* dict(issues_pat.findall(text)): the pairs that stay in the dict, by
\* their index in the findall list: a later pair with the same word
\* replaces an earlier one
references(found) ==
    {k \in DOMAIN found : \A j \in DOMAIN found : j > k => found[j][1] # found[k][1]}

\* issue_url.split("/")[-1]
last_segment(url) ==
    LET cuts == {k \in 1..Len(url) : url[k] = "/"}
    IN IF cuts = {} THEN url
       ELSE SubSeq(url, (CHOOSE k \in cuts : \A j \in cuts : j <= k) + 1, Len(url))

extract_resolved_issues(p) ==
    LET text == pull_text(p)
        ms == re_findall(issues_pat, text, 0)
        found == [k \in 1..Len(ms) |-> <<Group(text, ms[k], 1), Group(text, ms[k], 2)>>]
        resolved_issues ==
            {IntOf(found[k][2]) :
                k \in {j \in references(found) :
                         Len(found[j][1]) = 1 /\ Lower(found[j][1][1]) \in issue_keywords}}
        ns == re_findall(number_pat, text, 0)
        found_numbers == {IntOf(Group(text, ns[k], 1)) : k \in 1..Len(ns)}
        issue_num == last_segment(p.issue_url)
    IN IF resolved_issues # {} THEN resolved_issues
       ELSE IF \A k \in 1..Len(text) : ~HasRef(text[k]) THEN {}
       ELSE IF found_numbers # {} THEN found_numbers
       ELSE IF IntDefined(issue_num) THEN {IntOf(issue_num)}
       ELSE {-1}

\* what title, body and commit messages are made of
Notes ==
    {<<>>,
     <<"fixes", SP, "#", "1">>,
     <<"fixes", SP, "#", "2">>,
     <<"Fixes", "#", "2">>,
     <<"closes", SP, "#", "1">>,
     <<"see", SP, "#", "2">>,
     <<"refactor">>,
     <<"<", "!", "-", "-">>,
     <<"-", "-", ">">>}

RECURSIVE Lists(_, _)
Lists(S, n) ==
    IF n = 0 THEN {<<>>}
    ELSE Lists(S, n - 1) \cup {Append(l, x) : l \in Lists(S, n - 1), x \in S}

Pulls ==
    {[title |-> t, body |-> b, commits |-> c, issue_url |-> u] :
        t \in Notes, b \in Notes, c \in Lists(Notes \ {<<>>}, MaxCommits),
        u \in {<<>>, <<"issues", "/", "2">>}}

ExtractResolvedIssues ==
    /\ resolved = <<>>
    /\ resolved' = <<extract_resolved_issues(pull)>>
    /\ UNCHANGED <<exceptIssue, pull>>

InitIssues ==
    /\ adapter = ""
    /\ pull \in Pulls
    /\ resolved = <<>>
    /\ NoEval /\ NoParse /\ NoWalk /\ NoShell /\ NoCert /\ NoBuild /\ NoPrep
    /\ NoReg /\ NoCon /\ NoRetry /\ NoToken /\ NoPage /\ NoFilter

NextIssues == ExtractResolvedIssues

SpecIssues == InitIssues /\ [][NextIssues]_vars

\* the numbers N that follow a keyword as "<keyword> #N" in the text,
\* outside the HTML comments
Mentioned(text) ==
    {IntOf(<<text[k + 3]>>) :
        k \in {j \in 1..(Len(text) - 3) :
                 /\ Lower(text[j]) \in issue_keywords
                 /\ text[j + 1] = SP /\ text[j + 2] = "#" /\ IsDigit(text[j + 3])}}

\* C24: extract_resolved_issues returns every issue number N that occurs
\* in the title, the body or the commit messages, outside HTML comments,
\* as "<keyword> #N", also when one keyword is used for several numbers;
\* and -1 is returned only when no issue number was found, never together
\* with a real issue number.
C24_ResolvedIssues ==
    resolved # <<>> =>
      /\ Mentioned(pull_text(pull)) \subseteq resolved[1]
      /\ -1 \in resolved[1] =>
           resolved[1] = {-1} /\ Mentioned(pull_text(pull)) = {}

\* ---------------------------------------------------------------------
\* collect: the cursor-paginated fetchers
\* ---------------------------------------------------------------------

\* the largest max_repos / max_results a caller passes
MaxResults == 3

\* the page requests of one behaviour
MaxQueries == 3

batch_size == 100

\* min(page_size, max_results - len(prs))
first_of(fn, max, n) ==
    IF fn = "search_prs_with_graphql" /\ max - n < batch_size THEN max - n
    ELSE batch_size

\* what the client gives for one page request: it raises, or it returns the
\* nodes of a page with its pageInfo; the result of execute_query may hold
\* "errors", and repositoryOwner may be null
Page(kind, nodes, hasNextPage, endCursor) ==
    [kind |-> kind, nodes |-> nodes, hasNextPage |-> hasNextPage,
     endCursor |-> endCursor]

PagesOf(fn) ==
    {Page("ok", ns, h, c) :
        ns \in {<<>>, <<"r1">>, <<"r1", "r2">>, <<"r3", "r2">>},
        h \in BOOLEAN, c \in {"Y3Vyc29yOjE", "Y3Vyc29yOjI"}}
    \cup {Page("raise", <<>>, FALSE, "")}
    \cup (IF fn = "fetch_all_repos_with_pagination"
          THEN {Page("no owner", <<>>, FALSE, "")}
          ELSE IF fn = "search_prs_with_graphql"
          THEN {Page("errors", <<>>, FALSE, "")}
          ELSE {})

Fetchers ==
    {[fn |-> fn, max |-> n] :
        fn \in {"fetch_all_repos_with_pagination", "search_repos_with_conditions",
                "search_prs_with_graphql"},
        n \in 0..MaxResults}

\* mutant: search_prs_with_graphql leaves its loop on an empty page too
page_step_break(fn, list, after, p) ==
    IF p.kind # "ok" \/ p.nodes = <<>>
    THEN [list |-> list, after |-> after, break |-> TRUE]
    ELSE [list |-> list \o p.nodes,
          after |-> IF p.hasNextPage THEN p.endCursor ELSE after,
          break |-> ~p.hasNextPage]
\* the body of the while loop for one page: the list, the cursor, and
\* whether the loop is left by break
page_step(fn, list, after, p) ==
    IF p.kind # "ok" THEN [list |-> list, after |-> after, break |-> TRUE]
    ELSE IF p.nodes = <<>> /\ fn # "search_prs_with_graphql"
    THEN [list |-> list, after |-> after, break |-> TRUE]
    ELSE [list |-> list \o p.nodes,
          after |-> IF p.hasNextPage THEN p.endCursor ELSE after,
          break |-> ~p.hasNextPage]

\* all_repos[:max_repos]
Take(list, n) == SubSeq(list, 1, IF Len(list) < n THEN Len(list) ELSE n)

\* the fetcher is called: with a maximum of 0 the loop is skipped
CallFetcher ==
    /\ fetched.kind = "idle"
    /\ fetched' = IF fetcher.max = 0 THEN [kind |-> "returned", list |-> <<>>]
                  ELSE [kind |-> "running", list |-> <<>>]
    /\ UNCHANGED <<exceptPage, fetcher, cursor, all_results, queries, pages>>

\* one pass of the while loop, and the return when the loop ends with it
FetchPage(p) ==
    /\ fetched.kind = "running"
    /\ Len(queries) < MaxQueries
    /\ LET s == page_step(fetcher.fn, all_results, cursor, p)
       IN /\ queries' = Append(queries,
                               [after |-> cursor,
                                first |-> first_of(fetcher.fn, fetcher.max,
                                                   Len(all_results))])
          /\ pages' = Append(pages, p)
          /\ all_results' = s.list
          /\ cursor' = s.after
          /\ fetched' = IF s.break \/ Len(s.list) >= fetcher.max
                        THEN [kind |-> "returned", list |-> Take(s.list, fetcher.max)]
                        ELSE fetched
    /\ UNCHANGED <<exceptPage, fetcher>>

InitPages ==
    /\ adapter = ""
    /\ fetcher \in Fetchers
    /\ cursor = "" /\ all_results = <<>> /\ queries = <<>> /\ pages = <<>>
    /\ fetched = [kind |-> "idle", list |-> <<>>]
    /\ NoEval /\ NoParse /\ NoWalk /\ NoShell /\ NoCert /\ NoBuild /\ NoPrep
    /\ NoReg /\ NoCon /\ NoRetry /\ NoToken /\ NoIssue /\ NoFilter

NextPages ==
    \/ CallFetcher
    \/ \E p \in PagesOf(fetcher.fn) : FetchPage(p)

SpecPages == InitPages /\ [][NextPages]_vars

\* the nodes of the pages received, in order
RECURSIVE Received(_)
Received(ps) == IF Len(ps) = 0 THEN <<>> ELSE Head(ps).nodes \o Received(Tail(ps))

\* the page is empty, reports hasNextPage false, or is an error
LastPage(p) == p.kind # "ok" \/ p.nodes = <<>> \/ ~p.hasNextPage

\* C25: a paginated fetcher returns at most max_repos / max_results items,
\* a prefix of the pages received put end to end; it asks for every page
\* after the first with the endCursor of the page before; and it asks for
\* no page after the first page that is empty, reports hasNextPage false
\* or is an error.
C25_Pagination ==
    /\ fetched.kind = "returned" =>
         /\ Len(fetched.list) <= fetcher.max
         /\ IsPrefix(fetched.list, Received(pages))
    /\ \A k \in 1..Len(queries) :
         queries[k].after = IF k = 1 THEN "" ELSE pages[k - 1].endCursor
    /\ \A k \in 1..(Len(pages) - 1) : ~LastPage(pages[k])

\* ---------------------------------------------------------------------
\* collect: filter_repos_by_conditions
\* ---------------------------------------------------------------------

\* the repositories of one input list
MaxRepos == 2

\* the length up to which the local list is followed
MaxFiltered == 5

\* repository records: name and forkCount
RepoRecords ==
    {[full_name |-> n, forkCount |-> f] :
        n \in {"gin-gonic/gin", "apache/dubbo"}, f \in {0, 7}}
    \cup {[full_name |-> "", forkCount |-> 7]}

Jobs ==
    {[repos |-> rs, min_forks |-> mf, min_prs |-> mp, language |-> lg,
      min_lang_percent |-> pc, client |-> cl] :
        rs \in Lists(RepoRecords, MaxRepos), mf \in {0, 5}, mp \in {0, 1},
        lg \in {"", "go"}, pc \in {0, 50}, cl \in BOOLEAN}

\* the first loop: the repositories with forkCount >= min_forks
RECURSIVE fork_filter(_, _)
fork_filter(rs, min_forks) ==
    IF Len(rs) = 0 THEN <<>>
    ELSE (IF Head(rs).forkCount < min_forks THEN <<>> ELSE <<Head(rs)>>)
         \o fork_filter(Tail(rs), min_forks)

\* if min_prs <= 0 and (not language or min_lang_percent <= 0)
no_more_filtering(j) ==
    j.min_prs <= 0 /\ (j.language = "" \/ j.min_lang_percent <= 0)

\* the client path: fetch_repos_bulk_with_details leaves out the
\* repositories it did not get (gone[k]), and a repository whose language
\* share is under min_lang_percent (low[k]) is dropped
RECURSIVE bulk_filter(_, _, _, _)
bulk_filter(j, rs, gone, low) ==
    IF Len(rs) = 0 THEN <<>>
    ELSE (IF Head(gone) \/ Head(rs).full_name = ""
             \/ (j.language # "" /\ j.min_lang_percent > 0 /\ Head(low))
          THEN <<>> ELSE <<Head(rs)>>)
         \o bulk_filter(j, Tail(rs), Tail(gone), Tail(low))

\* filter_repos_by_conditions up to its fallback loop
CallFilter ==
    /\ final_filtered.kind = "idle"
    /\ LET fs == fork_filter(job.repos, job.min_forks)
       IN \E gone \in [1..Len(fs) -> BOOLEAN], low \in [1..Len(fs) -> BOOLEAN] :
            /\ filtered' = fs
            /\ IF no_more_filtering(job)
               THEN final_filtered' = [kind |-> "returned", list |-> fs] /\ fpos' = 0
               ELSE IF job.client
               THEN /\ final_filtered' = [kind |-> "returned",
                                list |-> bulk_filter(job, fs, gone, low)]
                    /\ fpos' = 0
               ELSE IF Len(fs) = 0
               THEN final_filtered' = [kind |-> "returned", list |-> fs] /\ fpos' = 0
               ELSE final_filtered' = [kind |-> "fallback", list |-> <<>>] /\ fpos' = 1
    /\ UNCHANGED <<exceptFilter, job>>

\* mutant: the fallback loop collects into a list of its own
fallback_pass_own(list, out, repo, low) ==
    IF repo.full_name = "" THEN <<list, out>>
    ELSE IF job.language # "" /\ job.min_lang_percent > 0 /\ low THEN <<list, out>>
    ELSE <<list, Append(out, repo)>>
\* one pass of "for repo in filtered": the list iterated and the list
\* collected into, which is the same list
fallback_pass(list, out, repo, low) ==
    IF repo.full_name = "" THEN <<list, list>>
    ELSE IF job.language # "" /\ job.min_lang_percent > 0 /\ low THEN <<list, list>>
    ELSE <<Append(list, repo), Append(list, repo)>>

\* the fallback loop: the pass for filtered[fpos], and the return when
\* the iteration has reached the end of the list; low: the language share
\* the REST API reports is under min_lang_percent
FallbackPass(low) ==
    /\ final_filtered.kind = "fallback"
    /\ Len(filtered) < MaxFiltered
    /\ LET s == fallback_pass(filtered, final_filtered.list, filtered[fpos], low)
       IN /\ filtered' = s[1]
          /\ fpos' = fpos + 1
          /\ final_filtered' = IF fpos + 1 > Len(s[1])
                     THEN [kind |-> "returned", list |-> s[2]]
                     ELSE [kind |-> "fallback", list |-> s[2]]
    /\ UNCHANGED <<exceptFilter, job>>

InitFilter ==
    /\ adapter = ""
    /\ job \in Jobs
    /\ filtered = <<>> /\ fpos = 0
    /\ final_filtered = [kind |-> "idle", list |-> <<>>]
    /\ NoEval /\ NoParse /\ NoWalk /\ NoShell /\ NoCert /\ NoBuild /\ NoPrep
    /\ NoReg /\ NoCon /\ NoRetry /\ NoToken /\ NoIssue /\ NoPage

NextFilter ==
    \/ CallFilter
    \/ \E low \in BOOLEAN : FallbackPass(low)

\* the call goes on as long as it has something to do
SpecFilter == InitFilter /\ [][NextFilter]_vars /\ WF_vars(NextFilter)

Times(x, list) == Cardinality({k \in 1..Len(list) : list[k] = x})

\* C26: filter_repos_by_conditions terminates, and the list it returns
\* holds no repository more often than the input list does, on the
\* sequential fallback path (no client, min_prs > 0 or a language with
\* min_lang_percent > 0) as on the others.
C26_FilterTerminates ==
    /\ <>(final_filtered.kind = "returned")
    /\ [](final_filtered.kind = "returned" =>
            \A r \in RepoRecords : Times(r, final_filtered.list) <= Times(r, job.repos))

\* ---------------------------------------------------------------------
\* phases run in one working tree
\* ---------------------------------------------------------------------

\* the tree ends with what the running script has applied
EndsWithApplied ==
    /\ Len(Applied) <= Len(tree)
    /\ SubSeq(tree, Len(tree) - Len(Applied) + 1, Len(tree)) = Applied

\* fix-run.sh is at its git apply in a tree that holds test.patch
SecondApply ==
    /\ phase = "fix-run.sh" /\ status = "running"
    /\ AtCmd.op = "git apply" /\ InTree("/home/test.patch")

\* C27: no phase script takes back a patch it applied, and the suite runs
\* on the patch sets {}, {test}, {test, fix} only in phases that started
\* from the prepared state: when fix-run.sh runs in the tree test-run.sh
\* left, its git apply names test.patch a second time, on a tree that
\* already holds it, and applies nothing.
C27_SameTree ==
    /\ [](/\ EndsWithApplied
          /\ Tested => tree = Applied)
    /\ [][/\ phase' = phase => IsPrefix(tree, tree')
          /\ (SecondApply /\ phase' = phase) =>
               /\ \E k \in 1..Len(AtCmd.args) : AtCmd.args[k] = "/home/test.patch"
               /\ status' = "failed" /\ tree' = tree /\ trace' = <<>>]_vars

\* fix-run.sh, started in the tree test-run.sh left, has ended at its git
\* apply: both patches are non-empty and test.patch is in the tree
C27_Witness ==
    /\ phase = "fix-run.sh" /\ status = "failed"
    /\ pr.test_patch # "" /\ pr.fix_patch # ""
    /\ tree = <<"/home/test.patch">> /\ trace = <<>>
    /\ AtCmd.op = "git apply"

\* ---------------------------------------------------------------------
\* dubbo parse_log and the place of a block in the log
\* ---------------------------------------------------------------------

\* a line of mvn output that holds no block
Preamble == <<"[", "INFO", "]", SP, "BUILD", LF>>

\* C28: the dubbo parse_log classifies a "Running <name> / Tests run: ..."
\* block independently of where it stands in the log: a log that begins
\* with a block gives the same TestResult as the same log after a line of
\* other text.
C28_BlockAtStart ==
    (adapter = "dubbo" /\ calls # <<>> /\ IsPrefix(<<"Running">>, calls[1].log)) =>
      LET moved == dubbo_parse_log(Preamble \o calls[1].log)
      IN /\ calls[1].raised = moved.raised
         /\ calls[1].result = moved.result

====
